---- MODULE Spec2Model ----
(***************************************************************************)
(* Model of sqlalchemy_multiconnector (SQLConnector): the transactional    *)
(* session scope, the session-injection decorator and the generic CRUD      *)
(* helpers, over a small relational store.                                  *)
(*                                                                          *)
(* The library underneath (sessions, transactions, queries) is the          *)
(* environment.  It is modelled in the transactional mode the constructor   *)
(* selects by default (session_autoflush=True, session_autocommit=False):   *)
(* a session works on a private view of one table, flush sends the pending  *)
(* changes into the open transaction, commit publishes them, rollback and   *)
(* close discard them.  commit and rollback may themselves raise.           *)
(***************************************************************************)
EXTENDS Integers, Sequences, FiniteSets, TLC

(***************************************************************************)
(* Bounds of the model.                                                     *)
(***************************************************************************)
\* number of helper calls made in one run, inside explicit scopes or decorated
MaxOps == 2

\* the deepest nesting of to_dict calls the model follows before it gives up
MaxDepth == 6

\* list_resources' upper limit, "if limit > 1000"
MaxLimit == 1000

(***************************************************************************)
(* Values held in columns.  Every value is a tagged record so that values   *)
(* of different Python types compare unequal instead of being confused.     *)
(***************************************************************************)
None == [t |-> "none", v |-> 0]
PyInt(n) == [t |-> "int", v |-> n]
PyStr(n) == [t |-> "str", v |-> n]
\* a datetime.datetime value
PyDatetime(n) == [t |-> "datetime", v |-> n]
\* the text datetime.isoformat() produces for PyDatetime(n)
PyIsoStr(n) == [t |-> "isostr", v |-> n]

NameValues == {PyStr(1), PyStr(2)}
CreatedValues == {PyDatetime(1)}

\* column keys of the mapped entity, in mapper order; "id" is the primary key
Columns == <<"id", "name", "created">>
ColumnSet == {Columns[i] : i \in 1..Len(Columns)}

\* a table is a function from the primary keys present to the entity stored
EmptyTable == [k \in {} |-> None]

\* hasattr / getattr on an entity or a result row
HasAttr(obj, f) == f \in DOMAIN obj

\* the mapped class: one attribute per column
EntityClass == [c \in ColumnSet |-> c]

\* resource_orm_class(**resource_fields): columns not given are NULL
NewEntity(F, pk) ==
    [c \in ColumnSet |-> IF c = "id" THEN PyInt(pk)
                         ELSE IF c \in DOMAIN F THEN F[c] ELSE None]

\* the key the database assigns to a new row (one more than the largest)
MaxKey(S) == IF S = {} THEN 0
             ELSE LET k == CHOOSE x \in S : \A y \in S : y <= x IN k

NextId(view) == MaxKey(DOMAIN view) + 1

\* the rows of a table in primary-key order
RECURSIVE RowsFrom(_, _)
RowsFrom(view, k) ==
    IF k > MaxKey(DOMAIN view) THEN <<>>
    ELSE IF k \in DOMAIN view THEN <<view[k]>> \o RowsFrom(view, k + 1)
    ELSE RowsFrom(view, k + 1)

Rows(view) == RowsFrom(view, 1)

(***************************************************************************)
(* decompose_fields and to_dict                                             *)
(***************************************************************************)
\* f.split('.') for the field names the model uses; "source.title" is the one
\* dotted name
Split(f) == IF f = "source.title" THEN <<"source", "title">> ELSE <<f>>

\* '.'.join(sf)
Join(sf) == IF Len(sf) = 1 THEN sf[1] ELSE "source.title"

decompose_fields(fields) ==
    IF fields = <<>> THEN [splitted |-> <<>>, are_relations |-> FALSE]
    ELSE [splitted |-> [i \in 1..Len(fields) |-> Split(fields[i])],
          are_relations |-> \E i \in 1..Len(fields) : Len(Split(fields[i])) > 1]

\* get_key_value: a datetime is replaced by its isoformat() text
IsoFormatIdentity(val) == val
IsoFormat(val) == IF val.t = "datetime" THEN PyIsoStr(val.v) ELSE val

\* to_dict(obj) with recursive=False: one key per mapper column
to_dict(obj) == [c \in ColumnSet |-> IsoFormat(obj[c])]

(***************************************************************************)
(* get_uris.  A Python str is the sequence of its characters; a literal of  *)
(* the source and a database name are single items of such a sequence.      *)
(* An argument is None, a str, an int or, for db_name, a str (its name), a   *)
(* list, a tuple or a set of names.                                          *)
(***************************************************************************)
Text(chars) == [t |-> "str", v |-> chars]
PortNumber(n) == [t |-> "int", v |-> n]
Name(n) == [t |-> "str", v |-> n]
NameList(names) == [t |-> "list", v |-> names]
NameTuple(names) == [t |-> "tuple", v |-> names]
NameSet(names) == [t |-> "set", v |-> names]

\* "not x" for an argument that is None, a str or an int
Falsy(x) == x.t = "none" \/ (x.t = "str" /\ x.v = <<>>) \/ (x.t = "int" /\ x.v = 0)
\* "not db_name"
FalsyName(x) ==
    \/ x.t = "none"
    \/ x.t = "str" /\ x.v = ""
    \/ x.t \in {"list", "tuple"} /\ x.v = <<>>
    \/ x.t = "set" /\ x.v = {}
    \/ x.t = "int" /\ x.v = 0

\* str(db_port)
Digit(d) == <<"0", "1", "2", "3", "4", "5", "6", "7", "8", "9">>[d + 1]
RECURSIVE StrOfInt(_)
StrOfInt(n) == IF n < 10 THEN <<Digit(n)>> ELSE StrOfInt(n \div 10) \o <<Digit(n % 10)>>

\* "if db_host_or_path[-1] == '/': db_host_or_path = db_host_or_path[:-1]"
StripTrailing(path) ==
    IF path[Len(path)] = "/" THEN SubSeq(path, 1, Len(path) - 1) ELSE path

\* the user part of a server URI
CredentialsBothOnly(db_user, db_passwd) ==
    IF ~Falsy(db_user) /\ ~Falsy(db_passwd)
    THEN db_user.v \o <<":">> \o db_passwd.v \o <<"@">> ELSE <<>>
Credentials(db_user, db_passwd) ==
    IF ~Falsy(db_user)
    THEN db_user.v \o (IF ~Falsy(db_passwd) THEN <<":">> \o db_passwd.v ELSE <<>>) \o <<"@">>
    ELSE <<>>

\* the part of every URI before "/" + name
UriPrefix(db_type, db_host_or_path, db_port, db_user, db_passwd) ==
    IF db_type.v = <<"sqlite">>
    THEN <<"sqlite:///">> \o StripTrailing(db_host_or_path.v)
    ELSE db_type.v \o <<"://">> \o Credentials(db_user, db_passwd)
            \o db_host_or_path.v
            \o (IF ~Falsy(db_port) THEN <<":">> \o StrOfInt(db_port.v) ELSE <<>>)

NoUris == [n \in {} |-> <<>>]
Built(uri_dict) == [fault |-> "none", uris |-> uri_dict]
NotBuilt(fault) == [fault |-> fault, uris |-> NoUris]

\* {name: uri + "/" + name for name in db_name}
UriDict(uri, names) == [n \in names |-> uri \o <<"/", n>>]
WithDefault(uri_dict, default_uri) ==
    [n \in DOMAIN uri_dict \cup {"default"} |->
        IF n \in DOMAIN uri_dict THEN uri_dict[n] ELSE default_uri]
Elements(names) == {names[i] : i \in 1..Len(names)}

get_uris_first_wins(db_type, db_host_or_path, db_port, db_name, db_user, db_passwd) ==
    LET uri == UriPrefix(db_type, db_host_or_path, db_port, db_user, db_passwd)
        first == IF db_name.t = "str" THEN db_name.v ELSE db_name.v[1]
        names == IF db_name.t = "str" THEN {} ELSE Elements(db_name.v) \ {"default"}
    IN  IF Falsy(db_type) \/ Falsy(db_host_or_path) \/ FalsyName(db_name)
            \/ db_name.t \notin {"str", "list", "tuple"}
        THEN NotBuilt("ValueError")
        ELSE Built(WithDefault(UriDict(uri, names), uri \o <<"/", first>>))
get_uris(db_type, db_host_or_path, db_port, db_name, db_user, db_passwd) ==
    LET uri == UriPrefix(db_type, db_host_or_path, db_port, db_user, db_passwd)
    IN  IF Falsy(db_type) \/ Falsy(db_host_or_path) \/ FalsyName(db_name)
        THEN NotBuilt("ValueError")
        ELSE IF db_name.t \in {"list", "tuple"}
        THEN LET uri_dict == UriDict(uri, Elements(db_name.v))
             IN  IF "default" \notin DOMAIN uri_dict
                 THEN Built(WithDefault(uri_dict, uri \o <<"/", db_name.v[1]>>))
                 ELSE Built(uri_dict)
        ELSE IF db_name.t = "set"
        \* db_name[0] on a set: 'set' object is not subscriptable
        THEN IF "default" \notin db_name.v THEN NotBuilt("TypeError")
             ELSE Built(UriDict(uri, db_name.v))
        ELSE IF db_name.t = "str"
        THEN Built(WithDefault(NoUris, uri \o <<"/", db_name.v>>))
        ELSE NotBuilt("ValueError")

(***************************************************************************)
(* Results of a CRUD helper: the value returned, the fault raised ("none"   *)
(* when it returns), the session's view of the table afterwards and whether *)
(* the helper made the session flush.                                       *)
(***************************************************************************)
NoRet == [t |-> "noret", v |-> 0]
RetBool(b) == [t |-> "bool", v |-> b]
RetId(pk) == [t |-> "id", v |-> pk]
RetDict(d) == [t |-> "dict", v |-> d]
RetList(total, resources) == [t |-> "list", v |-> [total |-> total, resources |-> resources]]
RetQuery(total, q) == [t |-> "query", v |-> [total |-> total, query |-> q]]

Returns(ret, view, flush) == [ret |-> ret, fault |-> "none", view |-> view, flush |-> flush]
Raises(fault, view, flush) == [ret |-> NoRet, fault |-> fault, view |-> view, flush |-> flush]

\* session.query(resource_orm_class).get(pk): the entity, or None
QueryGet(view, pk) == IF pk.t = "int" /\ pk.v \in DOMAIN view THEN view[pk.v] ELSE None

\* session.add(resource) / session.delete(resource) / setattr on a loaded entity
WithRow(view, pk, e) == [k \in DOMAIN view \cup {pk} |-> IF k = pk THEN e ELSE view[k]]
WithoutRow(view, pk) == [k \in DOMAIN view \ {pk} |-> view[k]]

create_resource(view, resource_fields, return_id) ==
    LET pk == NextId(view)
        added == WithRow(view, pk, NewEntity(resource_fields, pk))
    IN  IF return_id THEN Returns(RetId(pk), added, TRUE)
        ELSE Returns(RetBool(TRUE), added, FALSE)

delete_resource_strict(view, pk) ==
    IF QueryGet(view, pk) # None THEN Returns(RetBool(TRUE), WithoutRow(view, pk.v), TRUE)
    ELSE Raises("ValueError", view, TRUE)
delete_resource(view, pk) ==
    LET resource == QueryGet(view, pk)
    IN  IF resource # None THEN Returns(RetBool(TRUE), WithoutRow(view, pk.v), TRUE)
        ELSE Returns(RetBool(TRUE), view, TRUE)

\* self._dynamic_relations(resource, sf): getattr along the path
dynamic_relations_first(resource, sf) == resource[sf[1]]
RECURSIVE dynamic_relations(_, _)
dynamic_relations(resource, sf) ==
    IF Len(sf) > 1 THEN dynamic_relations(resource[sf[1]], Tail(sf))
    ELSE resource[sf[1]]

\* whether every getattr along the path finds its attribute
RECURSIVE HasPath(_, _)
HasPath(obj, sf) ==
    HasAttr(obj, sf[1]) /\ (Len(sf) > 1 => HasPath(obj[sf[1]], Tail(sf)))

\* {'.'.join(sf): self._dynamic_relations(resource, sf) for sf in splitted_fields}
FieldDict(resource, splitted) ==
    [f \in {Join(splitted[i]) : i \in 1..Len(splitted)} |->
        dynamic_relations(resource, Split(f))]

\* whether every getattr of the comprehension finds its attribute
AllAttrs(obj, splitted) == \A i \in 1..Len(splitted) : HasPath(obj, splitted[i])

\* session.query(*fields).filter(getattr(cls, pk_fieldname) == pk): the rows
NarrowRows(view, pk_fieldname, pk) ==
    SelectSeq(Rows(view), LAMBDA e : e[pk_fieldname] = pk)

get_resource_raise_first(view, pk, pk_fieldname, fields, just_check_existence) ==
    IF QueryGet(view, pk) = None THEN Raises("ValueError", view, TRUE)
    ELSE IF just_check_existence THEN Returns(RetBool(TRUE), view, TRUE)
    ELSE Returns(RetDict(to_dict(QueryGet(view, pk))), view, TRUE)
get_resource(view, pk, pk_fieldname, fields, just_check_existence) ==
    LET d == decompose_fields(fields)
        full == pk_fieldname = "" \/ fields = <<>> \/ d.are_relations
        found == NarrowRows(view, pk_fieldname, pk)
        resource == IF full THEN QueryGet(view, pk)
                    ELSE IF Len(found) = 1 THEN found[1] ELSE None
    IN  IF ~full /\ ~AllAttrs(EntityClass, d.splitted)
            THEN Raises("AttributeError", view, FALSE)
        ELSE IF ~full /\ ~HasAttr(EntityClass, pk_fieldname)
            THEN Raises("AttributeError", view, FALSE)
        ELSE IF ~full /\ Len(found) > 1
            THEN Raises("MultipleResultsFound", view, TRUE)
        ELSE IF just_check_existence
            THEN Returns(RetBool(resource # None), view, TRUE)
        ELSE IF resource = None
            THEN Raises("ValueError", view, TRUE)
        ELSE IF fields # <<>>
            THEN IF AllAttrs(resource, d.splitted)
                 THEN Returns(RetDict(FieldDict(resource, d.splitted)), view, TRUE)
                 ELSE Raises("AttributeError", view, TRUE)
        ELSE Returns(RetDict(to_dict(resource)), view, TRUE)

\* the loop of update_resource from position i on: the entity as modified so
\* far, and whether the loop raised on a field the entity does not have
RECURSIVE ApplyUpdates(_, _, _, _)
ApplyUpdates(resource, updated_fields, i, raise_if_bad_field) ==
    IF i > Len(updated_fields) THEN [resource |-> resource, raised |-> FALSE]
    ELSE LET field == updated_fields[i][1]
             new_value == updated_fields[i][2]
         IN  IF ~HasAttr(resource, field)
             THEN IF raise_if_bad_field
                  THEN [resource |-> resource, raised |-> TRUE]
                  ELSE ApplyUpdates(resource, updated_fields, i + 1, raise_if_bad_field)
             ELSE ApplyUpdates([resource EXCEPT ![field] = new_value],
                               updated_fields, i + 1, raise_if_bad_field)

update_resource_ignore_flag(view, pk, updated_fields, raise_if_bad_field) ==
    LET resource == QueryGet(view, pk)
        r == ApplyUpdates(resource, updated_fields, 1, FALSE)
    IN  IF resource = None THEN Raises("ValueError", view, TRUE)
        ELSE Returns(RetBool(TRUE), WithRow(view, pk.v, r.resource), TRUE)
update_resource(view, pk, updated_fields, raise_if_bad_field) ==
    LET resource == QueryGet(view, pk)
        r == ApplyUpdates(resource, updated_fields, 1, raise_if_bad_field)
    IN  IF resource = None THEN Raises("ValueError", view, TRUE)
        ELSE IF r.raised THEN Raises("ValueError", WithRow(view, pk.v, r.resource), TRUE)
        ELSE Returns(RetBool(TRUE), WithRow(view, pk.v, r.resource), TRUE)

(***************************************************************************)
(* Queries.  A query is not evaluated when it is built: it records the      *)
(* filter, the projected columns and the OFFSET / LIMIT (NoLimit: none).    *)
(***************************************************************************)
NoLimit == -1

\* resource_query_binding_class(session).evaluate_params(filter_and_sort_dict)
\* for the two filters of the model: "" (no filter) and "name1" (name == 1)
Matching(view, filt) ==
    IF filt = "" THEN Rows(view)
    ELSE SelectSeq(Rows(view), LAMBDA e : e["name"] = PyStr(1))

Min(a, b) == IF a < b THEN a ELSE b

\* the rows query.all() returns
QueryAll(q, view) ==
    LET m == Matching(view, q.filt)
        last == IF q.limit = NoLimit THEN Len(m) ELSE Min(Len(m), q.offset + q.limit)
    IN  SubSeq(m, q.offset + 1, last)

\* query.count(): the number of rows of the query as built so far
QueryCount(q, view) == Len(QueryAll(q, view))

compose_filter_query_count_last(view, filt, fields, limit, offset) ==
    LET sliced == [filt |-> filt, cols |-> <<>>, offset |-> offset,
                   limit |-> IF limit # 0 THEN limit ELSE NoLimit]
    IN  Returns(RetQuery(QueryCount(sliced, view), sliced), view, TRUE)
compose_filter_query(view, filt, fields, limit, offset) ==
    LET d == decompose_fields(fields)
        project == fields # <<>> /\ ~d.are_relations
        query == [filt |-> filt, cols |-> IF project THEN fields ELSE <<>>,
                  offset |-> 0, limit |-> NoLimit]
        total_count == IF limit # 0 \/ offset # 0 THEN QueryCount(query, view) ELSE 0
        sliced == IF limit # 0 /\ offset # 0
                      THEN [query EXCEPT !.offset = offset, !.limit = (offset + limit) - offset]
                  ELSE IF limit # 0 THEN [query EXCEPT !.limit = limit]
                  ELSE IF offset # 0 THEN [query EXCEPT !.offset = offset]
                  ELSE query
    IN  IF project /\ ~AllAttrs(EntityClass, d.splitted)
            THEN Raises("AttributeError", view, FALSE)
        ELSE Returns(RetQuery(total_count, sliced), view, limit # 0 \/ offset # 0)

\* list_resources after its limit check
ListPage(view, filt, fields, limit, offset) ==
    LET c == compose_filter_query(view, filt, fields, limit, offset)
        d == decompose_fields(fields)
        resources_list == QueryAll(c.ret.v.query, view)
        total_count == IF c.ret.v.total = 0 THEN Len(resources_list) ELSE c.ret.v.total
        response == IF fields # <<>>
                    THEN [i \in 1..Len(resources_list) |->
                             FieldDict(resources_list[i], d.splitted)]
                    ELSE [i \in 1..Len(resources_list) |-> to_dict(resources_list[i])]
    IN  IF c.fault # "none" THEN c
        ELSE IF fields # <<>> /\ \E i \in 1..Len(resources_list) :
                                    ~AllAttrs(resources_list[i], d.splitted)
            THEN Raises("AttributeError", view, TRUE)
        ELSE Returns(RetList(total_count, response), view, TRUE)

list_resources_ge(view, filt, fields, limit, offset) ==
    IF limit >= MaxLimit THEN Raises("ValueError", view, FALSE)
    ELSE ListPage(view, filt, fields, limit, offset)
list_resources(view, filt, fields, limit, offset) ==
    IF limit > MaxLimit THEN Raises("ValueError", view, FALSE)
    ELSE ListPage(view, filt, fields, limit, offset)

(***************************************************************************)
(* Calls of the CRUD helpers.  One record shape serves every helper; a      *)
(* helper reads only its own parameters.                                    *)
(*   flag is return_id, just_check_existence or raise_if_bad_field.         *)
(***************************************************************************)
Call(op, pk, F, upd, flag, pkf, fields, filt, limit, offset) ==
    [op |-> op, pk |-> pk, F |-> F, upd |-> upd, flag |-> flag, pkf |-> pkf,
     fields |-> fields, filt |-> filt, limit |-> limit, offset |-> offset]

Create(F, return_id) == Call("create", None, F, <<>>, return_id, "", <<>>, "", 0, 0)
Delete(pk) == Call("delete", pk, <<>>, <<>>, FALSE, "", <<>>, "", 0, 0)
Get(pk, pkf, fields, jce) == Call("get", pk, <<>>, <<>>, jce, pkf, fields, "", 0, 0)
Update(pk, upd, raise) == Call("update", pk, <<>>, upd, raise, "", <<>>, "", 0, 0)
List(filt, fields, limit, offset) ==
    Call("list", None, <<>>, <<>>, FALSE, "", fields, filt, limit, offset)
Compose(filt, fields, limit, offset) ==
    Call("compose", None, <<>>, <<>>, FALSE, "", fields, filt, limit, offset)

\* function(*args, **kwargs) with kwargs["session"] a session whose view is
\* `view`; extra_kwargs: db_name or schema_name is among the keywords, which
\* compose_filter_query (no **kwargs in its signature) does not accept
Invoke(c, view, extra_kwargs) ==
    CASE c.op = "create" -> create_resource(view, c.F, c.flag)
      [] c.op = "delete" -> delete_resource(view, c.pk)
      [] c.op = "get" -> get_resource(view, c.pk, c.pkf, c.fields, c.flag)
      [] c.op = "update" -> update_resource(view, c.pk, c.upd, c.flag)
      [] c.op = "list" -> list_resources(view, c.filt, c.fields, c.limit, c.offset)
      [] c.op = "compose" ->
            IF extra_kwargs THEN Raises("TypeError", view, FALSE)
            ELSE compose_filter_query(view, c.filt, c.fields, c.limit, c.offset)

(***************************************************************************)
(* Faults.  A fault is its exception class and the place that raised it.    *)
(***************************************************************************)
NoFault == [kind |-> "none", src |-> "none"]
Fault(kind, src) == [kind |-> kind, src |-> src]

\* "except InvalidRequestError": the class and its subclasses
CatchesNothing(kind) == FALSE
IsInvalidRequest(kind) == kind \in {"InvalidRequestError", "MultipleResultsFound"}

\* "except Exception": every class but the BaseException-only ones
IsException(kind) == kind \notin {"none", "KeyboardInterrupt"}

\* what session.commit() and session.rollback() may do
CommitOutcomes == {"ok", "InvalidRequestError", "OperationalError"}
RollbackOutcomes == {"ok", "OperationalError"}
\* what the body of a with-block may raise besides the helpers' own faults
BodyFaults == {"InvalidRequestError", "OperationalError", "KeyboardInterrupt"}

(***************************************************************************)
(* SQLConnector.__init__                                                    *)
(***************************************************************************)
Args(db_type, db_host_or_path, db_name, db_port, db_schemas, db_user, db_passwd) ==
    [db_type |-> db_type, db_host_or_path |-> db_host_or_path, db_name |-> db_name,
     db_port |-> db_port, db_schemas |-> db_schemas, db_user |-> db_user,
     db_passwd |-> db_passwd]

AllowedTypes == {Text(<<"sqlite">>), Text(<<"postgresql">>), Text(<<"mysql">>)}

\* self.schemas
StoredSchemas(a) ==
    IF a.db_type = Text(<<"sqlite">>) THEN None
    ELSE IF a.db_schemas.t = "str" THEN NameList(<<a.db_schemas.v>>)
    ELSE a.db_schemas

Constructed(a, uris) ==
    [kind |-> "init", args |-> a, fault |-> "none", uris |-> uris,
     schemas |-> StoredSchemas(a)]
NotConstructed(a, fault) ==
    [kind |-> "init", args |-> a, fault |-> fault, uris |-> NoUris, schemas |-> None]

SQLConnector_init(a) ==
    LET u == get_uris(a.db_type, a.db_host_or_path, a.db_port, a.db_name,
                      a.db_user, a.db_passwd)
    IN  IF FalsyName(a.db_name) THEN NotConstructed(a, "AttributeError")
        ELSE IF a.db_type \in AllowedTypes
        THEN IF a.db_type # Text(<<"sqlite">>)
                  /\ ~(~FalsyName(a.db_name) /\ ~Falsy(a.db_user) /\ ~Falsy(a.db_passwd))
             THEN NotConstructed(a, "AttributeError")
             ELSE IF u.fault # "none" THEN NotConstructed(a, u.fault)
             ELSE Constructed(a, u.uris)
        ELSE NotConstructed(a, "ValueError")

\* the database a URI designates on its server: the name that ends it
DatabaseOf(uri) == uri[Len(uri)]
\* {name: create_engine(uri) for name, uri in self.connection_uris.items()}
NoEngines == [n \in {} |-> ""]
CreateEngines(uris) == [n \in DOMAIN uris |-> DatabaseOf(uris[n])]

\* the connector of the lifecycle specifications: two databases on a server,
\* one schema
ConnectorArgs ==
    Args(Text(<<"postgresql">>), Text(<<"h">>), NameList(<<"db1", "db2">>), None,
         NameList(<<"s1">>), Text(<<"u">>), Text(<<"p">>))
NoDdl == [schemas |-> {}, tables |-> {}, open |-> 0]

(***************************************************************************)
(* to_dict with recursive=True, on a graph of mapped objects.  The classes  *)
(* are Parent (objects p1, p2), Child (c1, c2) and Tag (t1); a relationship *)
(* is identified by its class and name, as the RelationshipProperty object  *)
(* of the mapper is.  links[obj][name] is what getattr(obj, name) gives:    *)
(* [t |-> "none"], [t |-> "obj", v |-> o] or [t |-> "list", v |-> <<o..>>]. *)
(* The set `found` is one object shared by every call of a top-level call:  *)
(* each operator takes it and hands it back.  `log` lists the relationships *)
(* in the order they were expanded, `deep` says that the nesting passed     *)
(* MaxDepth.                                                                *)
(***************************************************************************)
\* class_mapper(obj.__class__).relationships.items(), in mapper order
Mapper(obj) ==
    CASE obj \in {"p1", "p2"} ->
             <<[relation |-> <<"Parent", "children">>, name |-> "children", uselist |-> TRUE],
               [relation |-> <<"Parent", "next">>, name |-> "next", uselist |-> FALSE]>>
      [] obj \in {"c1", "c2"} ->
             <<[relation |-> <<"Child", "parent">>, name |-> "parent", uselist |-> FALSE],
               [relation |-> <<"Child", "tags">>, name |-> "tags", uselist |-> TRUE]>>
      [] OTHER -> <<>>

\* the column values of an object of the graph
ColumnsOf(obj) == NewEntity([name |-> PyStr(1), created |-> PyDatetime(1)], 1)

\* found.add(relation)
AddFoundNothing(found, relation) == found
AddFound(found, relation) == found \cup {relation}

RECURSIVE to_dict_recursive(_, _, _, _)
RECURSIVE ExpandRelations(_, _, _, _, _, _)
RECURSIVE SerializeChildren(_, _, _, _, _, _)

\* to_dict(obj, found, True): the columns, then the relationships
to_dict_recursive(links, obj, st, depth) ==
    LET out == to_dict(ColumnsOf(obj))
    IN  IF depth > MaxDepth THEN [out |-> out, st |-> [st EXCEPT !.deep = TRUE]]
        ELSE ExpandRelations(links, obj, 1, out, st, depth)

\* "for name, relation in mapper.relationships.items()" from item i on
ExpandRelations(links, obj, i, out, st, depth) ==
    IF i > Len(Mapper(obj)) THEN [out |-> out, st |-> st]
    ELSE LET r == Mapper(obj)[i]
             related_obj == links[obj][r.name]
             st1 == [st EXCEPT !.found = AddFound(@, r.relation),
                               !.log = Append(@, r.relation)]
         IN  IF r.relation \in st.found
                 THEN ExpandRelations(links, obj, i + 1, out, st, depth)
             ELSE IF related_obj.t = "none"
                 THEN ExpandRelations(links, obj, i + 1, out, st1, depth)
             ELSE IF r.uselist
                 THEN LET c == SerializeChildren(links, related_obj.v, 1, <<>>, st1, depth)
                      IN  ExpandRelations(links, obj, i + 1,
                                          (r.name :> c.out) @@ out, c.st, depth)
             ELSE LET c == to_dict_recursive(links, related_obj.v, st1, depth + 1)
                  IN  ExpandRelations(links, obj, i + 1,
                                      (r.name :> c.out) @@ out, c.st, depth)

\* [to_dict(child, found, True) for child in related_obj] from child j on
SerializeChildren(links, children, j, outs, st, depth) ==
    IF j > Len(children) THEN [out |-> outs, st |-> st]
    ELSE LET c == to_dict_recursive(links, children[j], st, depth + 1)
         IN  SerializeChildren(links, children, j + 1, Append(outs, c.out), c.st, depth)

\* no call of to_dict has been made
NoSer == [state |-> "none"]

(***************************************************************************)
(* The connector's state.                                                   *)
(***************************************************************************)
VARIABLES
    ctor,       \* the construction of the connector: arguments, outcome,
                \* self.connection_uris and self.schemas
    disposed,   \* the engine names on whose engine dispose() has been called
    ddl,        \* the schemas and tables that create_tables and the raw
                \* queries have created: sets of <<database, schema>>
    engines,    \* self.engines: engine name -> the database its URI designates
    db,         \* committed content: <<database, schema>> -> table
    entry,      \* db as it was when the current (or last) scope was entered
    pc,         \* "idle", "body" (inside a with-block), "exit" (leaving it),
                \* "returned" (the caller holds the outcome)
    sess,       \* the session of the current (or last) scope
    bodyFault,  \* the fault with which the with-block's body ended
    ops,        \* helper calls made so far
    op,         \* the last helper invocation: call, view before, outcome
    prev,       \* the helper invocation before it in the same with-block
    last,       \* how the last top-level use ended, as its caller sees it
    threads,    \* concurrent callers: thread -> where it is in manager()
    live,       \* the session objects created by concurrent callers:
                \* identity -> session, with the threads that acted on it
    nsess,      \* the number of session objects created by them
    ser         \* to_dict on a graph of objects: the graph, the call and its result

vars == <<ctor, disposed, ddl, engines, db, entry, pc, sess, bodyFault, ops, op, prev,
          last, threads, live, nsess, ser>>
\* the part of the state that only concurrent callers change
concurrent == <<threads, live, nsess>>

\* a keyword argument that is not passed
Absent == "<absent>"

\* "x or 'default'"
OrDefaultUnlessAbsent(name) == IF name = Absent THEN "default" ELSE name
OrDefault(name) == IF name \in {Absent, ""} THEN "default" ELSE name
\* "if schema_name:"
Truthy(x) == x \notin {Absent, ""}

Databases == {"db1", "db2"}
Schemas == {"", "s1"}
DbKeys == Databases \X Schemas

Entity(pk, name, created) == [id |-> PyInt(pk), name |-> name, created |-> created]
Table1 == [k \in {1} |-> Entity(1, PyStr(1), None)]
Table2 == [k \in {1, 2} |-> IF k = 1 THEN Entity(1, PyStr(1), None)
                                      ELSE Entity(2, PyStr(1), PyDatetime(1))]
SeedTables == {EmptyTable, Table1, Table2}

NoCall == Call("none", None, <<>>, <<>>, FALSE, "", <<>>, "", 0, 0)
NoOp == [call |-> NoCall, before |-> EmptyTable, after |-> EmptyTable,
         ret |-> NoRet, fault |-> "none", n |-> 0]
NoLast == [kind |-> "none", db_name |-> Absent, schema_name |-> Absent,
           ret |-> NoRet, fault |-> NoFault, raised |-> NoFault,
           rollback |-> NoFault, opened |-> 0]
\* the threads that call the connector concurrently
Threads == {"t1", "t2"}
NoThread == [pc |-> "idle", sid |-> 0, call |-> NoCall, extra |-> FALSE,
             base |-> EmptyTable, fault |-> NoFault, first |-> "none"]
NoLive == [i \in {} |-> 0]

NoSession == [state |-> "none", engine |-> "", schema |-> "", conn |-> FALSE,
              view |-> EmptyTable, tx |-> EmptyTable, log |-> <<>>]

Init ==
    /\ ctor = SQLConnector_init(ConnectorArgs)
    /\ engines = CreateEngines(ctor.uris)
    /\ disposed = {}
    /\ ddl = NoDdl
    /\ \E seed \in SeedTables : db = [k \in DbKeys |-> seed]
    /\ entry = db
    /\ pc = "idle"
    /\ sess = NoSession
    /\ bodyFault = NoFault
    /\ ops = 0
    /\ op = NoOp
    /\ prev = NoOp
    /\ last = NoLast
    /\ threads = [t \in Threads |-> NoThread]
    /\ live = NoLive
    /\ nsess = 0
    /\ ser = NoSer

(***************************************************************************)
(* Sessions                                                                 *)
(***************************************************************************)
\* the table a session bound to (engine, schema) reads and writes
SessionKeyFirst(s) == <<"db1", s.schema>>
SessionKey(s) == <<engines[s.engine], s.schema>>

\* self.Session(bind=connection) after engine.connect().execution_options(
\* schema_translate_map={None: schema_name}), or self.Session(bind=engine)
NewSession(engine_name, schema_name) ==
    LET s == [state |-> "open", engine |-> engine_name,
              schema |-> IF Truthy(schema_name) THEN schema_name ELSE "",
              conn |-> Truthy(schema_name),
              view |-> EmptyTable, tx |-> EmptyTable, log |-> <<>>]
    IN  [s EXCEPT !.view = db[SessionKey(s)], !.tx = db[SessionKey(s)]]

\* session.flush(): the pending changes go into the open transaction
Flush(s) == [s EXCEPT !.tx = s.view]

\* the session after a helper ran on it
AfterInvokeCommits(s, r) ==
    [s EXCEPT !.view = r.view, !.tx = r.view, !.log = Append(s.log, "commit")]
AfterInvoke(s, r) ==
    LET t == [s EXCEPT !.view = r.view] IN IF r.flush THEN Flush(t) ELSE t

\* the session once session_scope has left its try statement
Closed(s, log) ==
    [s EXCEPT !.state = "closed", !.view = EmptyTable, !.tx = EmptyTable, !.log = log]

(***************************************************************************)
(* session_scope after the yield: commit, the except clauses, finally       *)
(***************************************************************************)
\* the calls made on the session, in order
ExitLogNoClose(attempt_commit, handled) ==
    (IF attempt_commit THEN <<"commit">> ELSE <<>>)
        \o (IF handled THEN <<"rollback">> ELSE <<>>)
ExitLog(attempt_commit, handled) ==
    (IF attempt_commit THEN <<"commit">> ELSE <<>>)
        \o (IF handled THEN <<"rollback">> ELSE <<>>)
        \o <<"close">>

ScopeOutcome(body_fault, co, ro) ==
    LET attempt_commit == body_fault = NoFault
        \* the fault that reaches the except clauses
        raised == IF ~attempt_commit THEN body_fault
                  ELSE IF co = "ok" THEN NoFault ELSE Fault(co, "commit")
        handled == IsInvalidRequest(raised.kind) \/ IsException(raised.kind)
        rollback == IF handled /\ ro # "ok" THEN Fault(ro, "rollback") ELSE NoFault
        propagated == IF rollback # NoFault THEN rollback
                      ELSE IF IsInvalidRequest(raised.kind) THEN NoFault
                      ELSE raised
    IN  [log |-> ExitLog(attempt_commit, handled),
         raised |-> raised, rollback |-> rollback, propagated |-> propagated,
         committed |-> attempt_commit /\ co = "ok"]

\* the committed content after the scope's exit
PublishAlways(s, committed) == [db EXCEPT ![SessionKey(s)] = s.view]
Publish(s, committed) == IF committed THEN [db EXCEPT ![SessionKey(s)] = s.view] ELSE db

(***************************************************************************)
(* Explicit use: "with connector.session_scope(...) as session:" and, in    *)
(* its body, helper calls that pass session=session.                        *)
(***************************************************************************)
\* session_scope up to the yield
ScopeEnter(engine_name, schema_name) ==
    /\ pc = "idle"
    /\ entry' = db
    /\ op' = NoOp
    /\ prev' = NoOp
    /\ bodyFault' = NoFault
    /\ IF OrDefault(engine_name) \notin DOMAIN engines
       THEN /\ pc' = "returned"
            /\ sess' = NoSession
            /\ last' = [NoLast EXCEPT !.kind = "scope",
                                        !.fault = Fault("ValueError", "scope")]
       ELSE /\ pc' = "body"
            /\ sess' = NewSession(OrDefault(engine_name), schema_name)
            /\ last' = [NoLast EXCEPT !.kind = "scope", !.opened = 1]
    /\ UNCHANGED <<ser, ctor, disposed, ddl, engines, db, ops>>
    /\ UNCHANGED concurrent

\* the record of one invocation of a helper
OpRecord(c, view, r, n) ==
    [call |-> c, before |-> view, after |-> r.view, ret |-> r.ret,
     fault |-> r.fault, n |-> n]

\* manager with 'session' in kwargs: "return function(*args, **kwargs)"
BodyCall(c) ==
    /\ pc = "body"
    /\ ops < MaxOps
    /\ \E r \in {Invoke(c, sess.view, FALSE)} :
           /\ sess' = AfterInvoke(sess, r)
           /\ op' = OpRecord(c, sess.view, r, 1)
           /\ pc' = IF r.fault = "none" THEN "body" ELSE "exit"
           /\ bodyFault' = IF r.fault = "none" THEN NoFault ELSE Fault(r.fault, "body")
    /\ prev' = op
    /\ ops' = ops + 1
    /\ UNCHANGED <<ser, ctor, disposed, ddl, engines, db, entry, last>>
    /\ UNCHANGED concurrent

\* the body raises a fault of its own
BodyRaise(kind) ==
    /\ pc = "body"
    /\ pc' = "exit"
    /\ bodyFault' = Fault(kind, "body")
    /\ UNCHANGED <<ser, ctor, disposed, ddl, engines, db, entry, sess, ops, op, prev, last>>
    /\ UNCHANGED concurrent

\* the body runs to its end
BodyEnd ==
    /\ pc = "body"
    /\ pc' = "exit"
    /\ bodyFault' = NoFault
    /\ UNCHANGED <<ser, ctor, disposed, ddl, engines, db, entry, sess, ops, op, prev, last>>
    /\ UNCHANGED concurrent

\* session_scope from the yield on
ScopeExit(co, ro) ==
    /\ pc = "exit"
    /\ \E x \in {ScopeOutcome(bodyFault, co, ro)} :
           /\ db' = Publish(sess, x.committed)
           /\ sess' = Closed(sess, x.log)
           /\ last' = [last EXCEPT !.fault = x.propagated, !.raised = x.raised,
                                    !.rollback = x.rollback]
    /\ pc' = "returned"
    /\ UNCHANGED <<ser, ctor, disposed, ddl, engines, entry, bodyFault, ops, op, prev>>
    /\ UNCHANGED concurrent

(***************************************************************************)
(* Decorated helper called without a session keyword: manage_session opens  *)
(* a scope, injects its session, invokes the helper and leaves the scope.   *)
(* When the scope suppresses the fault, the with statement ends normally    *)
(* and control reaches the manager's last line, which invokes the helper    *)
(* again with the kwargs as updated: on the session just closed, which      *)
(* begins anew on use.                                                      *)
(***************************************************************************)
\* the fault a helper's result carries
FaultOf(r) == IF r.fault = "none" THEN NoFault ELSE Fault(r.fault, "body")

\* the with statement suppressed the helper's fault: the manager goes on to
\* its last line
FallsThrough(r1, x) == r1.fault # "none" /\ x.propagated = NoFault

ManagedCall(c, db_name, schema_name, co, ro) ==
    /\ pc = "idle"
    /\ ops < MaxOps
    /\ ops' = ops + 1
    /\ entry' = db
    /\ prev' = NoOp
    /\ IF OrDefault(db_name) \notin DOMAIN engines
       THEN /\ sess' = NoSession
            /\ op' = [NoOp EXCEPT !.call = c]
            /\ db' = db
            /\ bodyFault' = NoFault
            /\ last' = [NoLast EXCEPT !.kind = "managed", !.db_name = db_name,
                                        !.schema_name = schema_name,
                                        !.fault = Fault("ValueError", "scope")]
       ELSE \E s0 \in {NewSession(OrDefault(db_name), schema_name)},
               extra \in {db_name # Absent \/ schema_name # Absent} :
            \E r1 \in {Invoke(c, s0.view, extra)} :
            \E x \in {ScopeOutcome(FaultOf(r1), co, ro)} :
            \E again \in {FallsThrough(r1, x)} :
            \E r2 \in {IF again THEN Invoke(c, db[SessionKey(s0)], extra) ELSE r1} :
                /\ db' = Publish(AfterInvoke(s0, r1), x.committed)
                /\ sess' = IF again
                           THEN [AfterInvoke([s0 EXCEPT !.state = "reopened"], r2)
                                    EXCEPT !.log = x.log]
                           ELSE Closed(AfterInvoke(s0, r1), x.log)
                /\ op' = OpRecord(c, s0.view, r1, IF again THEN 2 ELSE 1)
                /\ bodyFault' = FaultOf(r1)
                /\ last' = [kind |-> "managed", db_name |-> db_name,
                            schema_name |-> schema_name, opened |-> 1,
                            raised |-> x.raised, rollback |-> x.rollback,
                            ret |-> IF again THEN r2.ret
                                    ELSE IF x.propagated = NoFault THEN r1.ret
                                    ELSE NoRet,
                            fault |-> IF again THEN FaultOf(r2) ELSE x.propagated]
    /\ pc' = "returned"
    /\ UNCHANGED <<ser, ctor, disposed, ddl, engines>>
    /\ UNCHANGED concurrent

\* the caller takes the outcome; the connector is idle again
Return ==
    /\ pc = "returned"
    /\ pc' = "idle"
    /\ entry' = db
    /\ sess' = NoSession
    /\ bodyFault' = NoFault
    /\ op' = NoOp
    /\ prev' = NoOp
    /\ last' = NoLast
    /\ UNCHANGED <<ser, ctor, disposed, ddl, engines, db, ops>>
    /\ UNCHANGED concurrent

(***************************************************************************)
(* Concurrent callers.  Each thread runs manager() for a decorated helper   *)
(* called without a session, step by step: it enters the scope (a session   *)
(* object is created), invokes the helper, leaves the scope, possibly       *)
(* invokes the helper again, and returns.  Each session works on the rows   *)
(* as they were when it began; a commit writes the rows the session changed *)
(* and fails when another commit has changed one of them in between.        *)
(***************************************************************************)
\* self.Session(bind=...): the sessionmaker makes a new object at every call
AllocateSessionShared(n) == 1
AllocateSession(n) == n + 1

\* the keys a session inserted, changed or deleted since it began
Written(base, view) ==
    {k \in DOMAIN view : k \notin DOMAIN base \/ view[k] # base[k]}
        \cup (DOMAIN base \ DOMAIN view)
\* another transaction committed a change to a row this one has written
Conflict(table, base, view) ==
    \E k \in Written(base, view) :
        \/ (k \in DOMAIN table) # (k \in DOMAIN base)
        \/ k \in DOMAIN table /\ k \in DOMAIN base /\ table[k] # base[k]
\* the committed table after the session's changes are written to it
Merge(table, base, view) ==
    [k \in (DOMAIN table \ Written(base, view)) \cup DOMAIN view |->
        IF k \in Written(base, view) \/ k \notin DOMAIN table THEN view[k] ELSE table[k]]

\* lines 69-72 with session_scope up to its yield
ManagerEnter(t, c, db_name, schema_name) ==
    /\ pc = "idle"
    /\ threads[t].pc = "idle"
    /\ ops < MaxOps
    /\ ops' = ops + 1
    /\ IF OrDefault(db_name) \notin DOMAIN engines
       THEN /\ threads' = [threads EXCEPT ![t] =
                   [NoThread EXCEPT !.pc = "done", !.call = c,
                                    !.fault = Fault("ValueError", "scope")]]
            /\ UNCHANGED <<live, nsess>>
       ELSE \E sid \in {AllocateSession(nsess)},
               s \in {NewSession(OrDefault(db_name), schema_name)} :
            /\ nsess' = nsess + 1
            /\ live' = (sid :> [s |-> s,
                                 users |-> IF sid \in DOMAIN live
                                           THEN live[sid].users \cup {t} ELSE {t}])
                           @@ live
            /\ threads' = [threads EXCEPT ![t] =
                   [NoThread EXCEPT !.pc = "with", !.sid = sid, !.call = c,
                       !.extra = (db_name # Absent \/ schema_name # Absent),
                       !.base = s.view]]
    /\ UNCHANGED <<ser, ctor, disposed, ddl, engines, db, entry, pc, sess, bodyFault, op,
                   prev, last>>

\* lines 73-74: the helper runs on the injected session
ManagerInvoke(t) ==
    /\ threads[t].pc = "with"
    /\ \E sid \in {threads[t].sid} :
       \E r \in {Invoke(threads[t].call, live[sid].s.view, threads[t].extra)} :
            /\ live' = [live EXCEPT ![sid] = [s |-> AfterInvoke(live[sid].s, r),
                                              users |-> live[sid].users \cup {t}]]
            /\ threads' = [threads EXCEPT ![t].pc = "exit", ![t].fault = FaultOf(r),
                                          ![t].first = r.fault]
    /\ UNCHANGED <<ser, ctor, disposed, ddl, engines, db, entry, pc, sess, bodyFault, ops, op,
                   prev, last, nsess>>

\* session_scope from its yield on, for the thread's session
ManagerExit(t, co, ro) ==
    /\ threads[t].pc = "exit"
    /\ \E sid \in {threads[t].sid} :
       \E s \in {live[sid].s} :
       \E x \in {ScopeOutcome(threads[t].fault, co, ro)} :
            /\ Conflict(db[SessionKey(s)], threads[t].base, s.view) => ~x.committed
            /\ db' = IF x.committed
                      THEN [db EXCEPT ![SessionKey(s)] = Merge(@, threads[t].base, s.view)]
                      ELSE db
            /\ live' = [live EXCEPT ![sid] = [s |-> Closed(s, x.log),
                                              users |-> live[sid].users \cup {t}]]
            /\ threads' = [threads EXCEPT
                   ![t].pc = IF FallsThrough([fault |-> threads[t].first], x)
                             THEN "again" ELSE "done",
                   ![t].fault = x.propagated]
    /\ UNCHANGED <<ser, ctor, disposed, ddl, engines, entry, pc, sess, bodyFault, ops, op,
                   prev, last, nsess>>

\* line 75 after a suppressed fault: the helper runs again, on the session
\* that was just closed and begins anew
ManagerAgain(t) ==
    /\ threads[t].pc = "again"
    /\ \E sid \in {threads[t].sid} :
       \E s \in {live[sid].s} :
       \E r \in {Invoke(threads[t].call, db[SessionKey(s)], threads[t].extra)} :
            /\ live' = [live EXCEPT ![sid] =
                   [s |-> [AfterInvoke([s EXCEPT !.state = "reopened"], r)
                              EXCEPT !.log = s.log],
                    users |-> live[sid].users \cup {t}]]
            /\ threads' = [threads EXCEPT ![t].pc = "done", ![t].fault = FaultOf(r)]
    /\ UNCHANGED <<ser, ctor, disposed, ddl, engines, db, entry, pc, sess, bodyFault, ops, op,
                   prev, last, nsess>>

\* the thread's call is over; its session object is dropped
ManagerReturn(t) ==
    /\ threads[t].pc = "done"
    /\ threads' = [threads EXCEPT ![t] = NoThread]
    /\ live' = [i \in DOMAIN live \ {threads[t].sid} |-> live[i]]
    /\ UNCHANGED <<ser, ctor, disposed, ddl, engines, db, entry, pc, sess, bodyFault, ops, op,
                   prev, last, nsess>>

(***************************************************************************)
(* execute_query, create_tables and kill                                    *)
(***************************************************************************)
\* what connection.execute() and create_all() may do
ExecuteOutcomes == {"ok", "OperationalError"}

\* "schemas or self.schemas", then "[schemas]" for a str
SchemasOr(schemas, stored) ==
    LET chosen == IF FalsyName(schemas) THEN stored ELSE schemas
    IN  IF chosen.t = "str" THEN NameList(<<chosen.v>>) ELSE chosen

\* the statements _create_schemas sends: one per engine name and schema
SchemaTargets(engs, schemas) ==
    IF schemas.t = "none" THEN {}
    ELSE {<<engs[n], schemas.v[i]>> : n \in DOMAIN engs, i \in 1..Len(schemas.v)}

\* execute_query(query, engine_name) for the query "CREATE SCHEMA IF NOT
\* EXISTS <schema>"; an engine_name of None is the absent argument
ExecuteQuery(schema, engine_name, eo) ==
    /\ pc = "idle"
    /\ ops < MaxOps
    /\ ops' = ops + 1
    /\ \E name \in {IF engine_name = Absent THEN "default" ELSE engine_name} :
           IF name \notin DOMAIN engines
           THEN /\ ddl' = ddl
                /\ last' = [NoLast EXCEPT !.kind = "execute_query",
                                            !.fault = Fault("ValueError", "execute_query")]
           ELSE IF eo # "ok"
           \* the fault leaves before connection.close()
           THEN /\ ddl' = [ddl EXCEPT !.open = @ + 1]
                /\ last' = [NoLast EXCEPT !.kind = "execute_query",
                                            !.fault = Fault(eo, "execute_query")]
           ELSE /\ ddl' = [ddl EXCEPT !.schemas = @ \cup {<<engines[name], schema>>}]
                /\ last' = [NoLast EXCEPT !.kind = "execute_query"]
    /\ pc' = "returned"
    /\ UNCHANGED <<ser, ctor, disposed, engines, db, entry, sess, bodyFault, op, prev>>
    /\ UNCHANGED concurrent

\* create_tables(schemas): _create_schemas, then create_all per engine
CreateTables(schemas, eo) ==
    /\ pc = "idle"
    /\ ops < MaxOps
    /\ ops' = ops + 1
    /\ \E chosen \in {SchemasOr(schemas, ctor.schemas)} :
           IF eo # "ok"
           \* the first statement sent raises
           THEN /\ ddl' = [ddl EXCEPT !.open = @ + (IF chosen.t = "none" THEN 0 ELSE 1)]
                /\ last' = [NoLast EXCEPT !.kind = "create_tables",
                                            !.fault = Fault(eo, "create_tables")]
           ELSE IF chosen.t = "none"
           THEN /\ ddl' = [ddl EXCEPT !.tables = @ \cup {<<engines[n], "">> : n \in DOMAIN engines}]
                /\ last' = [NoLast EXCEPT !.kind = "create_tables"]
           ELSE IF ctor.schemas.t = "none"
           \* "for sc in self.schemas" with self.schemas None
           THEN /\ ddl' = [ddl EXCEPT !.schemas = @ \cup SchemaTargets(engines, chosen)]
                /\ last' = [NoLast EXCEPT !.kind = "create_tables",
                                            !.fault = Fault("TypeError", "create_tables")]
           ELSE /\ ddl' = [ddl EXCEPT
                              !.schemas = @ \cup SchemaTargets(engines, chosen),
                              !.tables = @ \cup SchemaTargets(engines, ctor.schemas),
                              !.open = @ + Cardinality(DOMAIN engines) * Len(ctor.schemas.v)]
                /\ last' = [NoLast EXCEPT !.kind = "create_tables"]
    /\ pc' = "returned"
    /\ UNCHANGED <<ser, ctor, disposed, engines, db, entry, sess, bodyFault, op, prev>>
    /\ UNCHANGED concurrent

\* kill: "for engine in self.engines: self.engines[engine].dispose()"
DisposeDefaultOnly(engs) == DOMAIN engs \cap {"default"}
Dispose(engs) == DOMAIN engs

Kill ==
    /\ pc = "idle"
    /\ ops < MaxOps
    /\ ops' = ops + 1
    /\ disposed' = disposed \cup Dispose(engines)
    /\ last' = [NoLast EXCEPT !.kind = "kill"]
    /\ pc' = "returned"
    /\ UNCHANGED <<ser, ctor, ddl, engines, db, entry, sess, bodyFault, op, prev>>
    /\ UNCHANGED concurrent

(***************************************************************************)
(* The inputs of the lifecycle and routing specification: every way of      *)
(* naming an engine and a schema, and one call per path of the helpers.     *)
(***************************************************************************)
EngineArgs == {Absent, "", "default", "db1", "db2", "nope"}
SchemaArgs == {Absent, "", "s1"}

BadUpdate == <<<<"name", PyStr(2)>>, <<"bogus", PyStr(2)>>>>
\* the same mapping with the unknown field first
BadUpdateFirst == <<<<"bogus", PyStr(2)>>, <<"name", PyStr(2)>>>>

RoutingCalls ==
    { Create([name |-> PyStr(1)], FALSE),
      Create([name |-> PyStr(1)], TRUE),
      Delete(PyInt(1)),
      Get(PyInt(1), "", <<>>, FALSE),
      Get(PyStr(1), "name", <<"name">>, FALSE),
      Update(PyInt(1), BadUpdate, TRUE),
      List("", <<>>, 0, 0),
      Compose("", <<>>, 0, 0) }

Next ==
    \/ \E e \in EngineArgs, s \in SchemaArgs : ScopeEnter(e, s)
    \/ \E c \in RoutingCalls : BodyCall(c)
    \/ \E k \in BodyFaults : BodyRaise(k)
    \/ BodyEnd
    \/ \E co \in CommitOutcomes, ro \in RollbackOutcomes : ScopeExit(co, ro)
    \/ \E c \in RoutingCalls, d \in EngineArgs, s \in SchemaArgs,
          co \in CommitOutcomes, ro \in RollbackOutcomes : ManagedCall(c, d, s, co, ro)
    \/ Return

Spec == Init /\ [][Next]_vars

(***************************************************************************)
(* Properties of the transactional scope and of the decorator               *)
(***************************************************************************)
Count(seq, x) == Cardinality({i \in 1..Len(seq) : seq[i] = x})

\* the exception classes that are faults: the subclasses of Exception
FaultKinds == {"InvalidRequestError", "MultipleResultsFound", "ValueError",
               "AttributeError", "TypeError", "OperationalError"}
InvalidRequestKinds == {"InvalidRequestError", "MultipleResultsFound"}

\* a scope was opened and has been left
ScopeLeft == sess.state \in {"closed", "reopened"}

\* C1: in every scope that has been left: a body that completed normally had
\* commit attempted exactly once; a body that raised a fault had rollback
\* called and commit never attempted; and close was called exactly once, as
\* the last call on the session, also when commit or rollback raised.
C1_CommitRollbackClose ==
    ScopeLeft =>
        /\ bodyFault = NoFault => Count(sess.log, "commit") = 1
        /\ bodyFault.kind \in FaultKinds =>
               Count(sess.log, "rollback") = 1 /\ Count(sess.log, "commit") = 0
        /\ Count(sess.log, "close") = 1
        /\ sess.log[Len(sess.log)] = "close"

\* C1 witness: the body completed, the commit raised and so did the rollback
C1_Witness ==
    /\ ScopeLeft
    /\ bodyFault = NoFault
    /\ last.raised.src = "commit"
    /\ last.rollback.src = "rollback"

C3_AsStated ==
    (pc = "returned" /\ last.kind = "scope" /\ last.raised.kind \in FaultKinds) =>
        /\ Count(sess.log, "rollback") = 1
        /\ last.raised.kind \in InvalidRequestKinds => last.fault # last.raised
        /\ last.raised.kind \notin InvalidRequestKinds => last.fault = last.raised

\* C3 amended: both kinds are rolled back and the session is closed last.
\* When the rollback returns, an invalid-request fault is suppressed (the
\* scope ends normally) and any other fault is re-raised unchanged; when the
\* rollback itself raises, the caller receives the rollback's fault instead.
C3_SwallowOrPropagate ==
    (pc = "returned" /\ last.kind = "scope" /\ last.raised.kind \in FaultKinds) =>
        /\ Count(sess.log, "rollback") = 1
        /\ sess.log[Len(sess.log)] = "close"
        /\ last.rollback # NoFault =>
               last.rollback.src = "rollback" /\ last.fault = last.rollback
        /\ (last.rollback = NoFault /\ last.raised.kind \in InvalidRequestKinds) =>
               last.fault = NoFault
        /\ (last.rollback = NoFault /\ last.raised.kind \notin InvalidRequestKinds) =>
               last.fault = last.raised

\* C3 witness: the commit raised an invalid-request fault, which the scope
\* rolled back and suppressed
C3_Witness ==
    /\ pc = "returned"
    /\ last.kind = "scope"
    /\ last.raised = Fault("InvalidRequestError", "commit")
    /\ Count(sess.log, "rollback") = 1
    /\ last.fault = NoFault

\* the database an engine name designates, and the names that are registered
ExpectedDatabase(name) == IF name \in {"default", "db1"} THEN "db1" ELSE "db2"
Registered == {"default", "db1", "db2"}
ExpectedEngine(db_name) == IF db_name \in {Absent, ""} THEN "default" ELSE db_name
ExpectedSchema(schema_name) == IF schema_name \in {Absent, ""} THEN "" ELSE schema_name

\* C4: a decorated helper called without a session either names no registered
\* engine, and then fails with ValueError with no scope opened and the helper
\* never invoked; or has opened exactly one scope, bound to the engine of
\* db_name ("default" when absent or empty) and to schema_name, has run the
\* helper on that scope's session, and has committed or rolled back and then
\* closed the scope when it returns or raises.
C4_OneScopePerCall ==
    (pc = "returned" /\ last.kind = "managed") =>
        IF ExpectedEngine(last.db_name) \notin Registered
        THEN /\ last.fault = Fault("ValueError", "scope")
             /\ last.opened = 0 /\ op.n = 0 /\ sess.state = "none" /\ db = entry
        ELSE /\ last.opened = 1
             /\ sess.engine = ExpectedEngine(last.db_name)
             /\ sess.schema = ExpectedSchema(last.schema_name)
             /\ sess.conn = (ExpectedSchema(last.schema_name) # "")
             /\ op.n >= 1
             /\ op.before = entry[<<ExpectedDatabase(sess.engine), sess.schema>>]
             /\ Count(sess.log, "commit") + Count(sess.log, "rollback") >= 1
             /\ Count(sess.log, "close") = 1
             /\ sess.log[Len(sess.log)] = "close"

\* C4 witness: list_resources called with db_name "db2" and schema_name "s1"
\* has returned its result
C4_Witness ==
    /\ pc = "returned"
    /\ last.kind = "managed"
    /\ op.call.op = "list"
    /\ last.db_name = "db2" /\ last.schema_name = "s1"
    /\ last.fault = NoFault /\ last.ret.t = "list"

PkArgs == {1, 2, 3}

\* resource_fields: any subset of the non-key columns
CreateFields ==
    { [c \in {} |-> None],
      [c \in {"name"} |-> PyStr(1)],
      [c \in {"created"} |-> PyDatetime(1)],
      [c \in {"name", "created"} |-> IF c = "name" THEN PyStr(2) ELSE PyDatetime(1)] }

DataCalls ==
    {Create(F, rid) : F \in CreateFields, rid \in BOOLEAN}
    \cup {Delete(PyInt(k)) : k \in PkArgs}
    \cup {Get(PyInt(k), "", <<>>, jce) : k \in PkArgs, jce \in BOOLEAN}
    \cup {Get(PyInt(k), "id", <<"name">>, jce) : k \in PkArgs, jce \in BOOLEAN}
    \cup {Get(PyStr(1), "name", <<"name">>, FALSE)}
    \cup {Update(PyInt(k), upd, raise) :
              k \in {1, 3}, upd \in {<<<<"name", PyStr(2)>>>>, BadUpdate, BadUpdateFirst},
              raise \in BOOLEAN}

NextCrud ==
    \/ ScopeEnter(Absent, Absent)
    \/ \E c \in DataCalls : BodyCall(c)
    \/ BodyEnd
    \/ \E co \in CommitOutcomes, ro \in RollbackOutcomes : ScopeExit(co, ro)
    \/ \E c \in DataCalls, co \in CommitOutcomes, ro \in RollbackOutcomes :
          ManagedCall(c, Absent, Absent, co, ro)
    \/ Return

SpecCrud == Init /\ [][NextCrud]_vars

(***************************************************************************)
(* list_resources over tables of up to three rows, limits around the        *)
(* maximum and offsets up to past the end.                                  *)
(***************************************************************************)
Table3 == [k \in {1, 2, 3} |-> IF k = 1 THEN Entity(1, PyStr(1), None)
                               ELSE IF k = 2 THEN Entity(2, PyStr(2), PyDatetime(1))
                               ELSE Entity(3, PyStr(1), PyDatetime(1))]

InitList ==
    /\ ctor = SQLConnector_init(ConnectorArgs)
    /\ engines = CreateEngines(ctor.uris)
    /\ disposed = {}
    /\ ddl = NoDdl
    /\ \E seed \in SeedTables \cup {Table3} : db = [k \in DbKeys |-> seed]
    /\ entry = db
    /\ pc = "idle"
    /\ sess = NoSession
    /\ bodyFault = NoFault
    /\ ops = 0
    /\ op = NoOp
    /\ prev = NoOp
    /\ last = NoLast
    /\ threads = [t \in Threads |-> NoThread]
    /\ live = NoLive
    /\ nsess = 0
    /\ ser = NoSer

LimitArgs == {0, 1, 2, 3, MaxLimit - 1, MaxLimit, MaxLimit + 1, MaxLimit + 2}
OffsetArgs == {0, 1, 2, 3, 4}

ListCalls ==
    {List(filt, fields, limit, offset) :
        filt \in {"", "name1"}, fields \in {<<>>, <<"name">>, <<"name", "created">>},
        limit \in LimitArgs, offset \in OffsetArgs}

NextList ==
    \/ \E c \in ListCalls, co \in CommitOutcomes, ro \in RollbackOutcomes :
          ManagedCall(c, Absent, Absent, co, ro)
    \/ Return

SpecList == InitList /\ [][NextList]_vars

(***************************************************************************)
(* Construction.  Before it there is no connector; the arguments range over *)
(* every kind of value the checks of __init__ and get_uris tell apart.      *)
(***************************************************************************)
Unbuilt == [kind |-> "none", args |-> None, fault |-> "none", uris |-> NoUris,
            schemas |-> None]

InitNew ==
    /\ ctor = Unbuilt
    /\ engines = NoEngines
    /\ disposed = {}
    /\ ddl = NoDdl
    /\ db = [k \in DbKeys |-> EmptyTable]
    /\ entry = db
    /\ pc = "new"
    /\ sess = NoSession
    /\ bodyFault = NoFault
    /\ ops = 0
    /\ op = NoOp
    /\ prev = NoOp
    /\ last = NoLast
    /\ threads = [t \in Threads |-> NoThread]
    /\ live = NoLive
    /\ nsess = 0
    /\ ser = NoSer

ConstructArgs ==
    {Args(t, h, n, p, sc, u, pw) :
        t \in {None, Text(<<>>), Text(<<"sqlite">>), Text(<<"postgresql">>),
               Text(<<"mysql">>), Text(<<"oracle">>)},
        h \in {None, Text(<<>>), Text(<<"h">>), Text(<<"/">>), Text(<<"/", "d">>),
               Text(<<"/", "d", "/">>), Text(<<"/", "d", "/", "/">>)},
        n \in {None, Name(""), Name("a"), PortNumber(5),
               NameList(<<>>), NameList(<<"a">>), NameList(<<"a", "b">>),
               NameList(<<"a", "default">>), NameList(<<"default", "a">>),
               NameTuple(<<"a", "b">>), NameTuple(<<"b", "default", "a">>),
               NameSet({}), NameSet({"a", "b"}), NameSet({"a", "default"})},
        p \in {None, PortNumber(0), PortNumber(5432)},
        sc \in {None, Name("s1"), NameList(<<"s1">>)},
        u \in {None, Text(<<>>), Text(<<"u">>)},
        pw \in {None, Text(<<>>), Text(<<"p">>)}}
GetUrisArgs == {[a EXCEPT !.db_schemas = None] : a \in ConstructArgs}

\* connector = SQLConnector(...)
Construct(arguments) ==
    /\ pc = "new"
    /\ \E a \in arguments :
       \E c \in {SQLConnector_init(a)} :
           /\ ctor' = c
           /\ engines' = CreateEngines(c.uris)
           /\ pc' = IF c.fault = "none" THEN "idle" ELSE "failed"
    /\ UNCHANGED <<ser, disposed, ddl, db, entry, sess, bodyFault, ops, op, prev, last>>
    /\ UNCHANGED concurrent

\* get_uris(...) called on its own
GetUris ==
    /\ pc = "new"
    /\ \E a \in GetUrisArgs :
       \E u \in {get_uris(a.db_type, a.db_host_or_path, a.db_port, a.db_name,
                          a.db_user, a.db_passwd)} :
           ctor' = [kind |-> "get_uris", args |-> a, fault |-> u.fault,
                    uris |-> u.uris, schemas |-> None]
    /\ pc' = "built"
    /\ UNCHANGED <<ser, disposed, ddl, engines, db, entry, sess, bodyFault, ops, op, prev, last>>
    /\ UNCHANGED concurrent

NextUris == Construct(ConstructArgs) \/ GetUris

SpecUris == InitNew /\ [][NextUris]_vars

(***************************************************************************)
(* The life of a connector: construction, then scopes, helper calls, raw    *)
(* queries, create_tables and kill in any order.                            *)
(***************************************************************************)
LifeArgs ==
    {Args(t, Text(<<"h">>), n, None, sc, Text(<<"u">>), Text(<<"p">>)) :
        t \in {Text(<<"sqlite">>), Text(<<"postgresql">>)},
        n \in {None, Name("db1"), NameList(<<"db1", "db2">>)},
        sc \in {None, NameList(<<"s1">>)}}
LifeEngineArgs == {Absent, "", "db2", "nope"}
LifeCalls == {Create([name |-> PyStr(1)], TRUE), Delete(PyInt(1))}

NextLife ==
    \/ Construct(LifeArgs)
    \/ \E e \in LifeEngineArgs, sc \in {Absent, "s1"} : ScopeEnter(e, sc)
    \/ \E c \in LifeCalls : BodyCall(c)
    \/ BodyEnd
    \/ \E co \in CommitOutcomes, ro \in RollbackOutcomes : ScopeExit(co, ro)
    \/ \E c \in LifeCalls, d \in LifeEngineArgs, sc \in {Absent, "s1"},
          co \in CommitOutcomes, ro \in RollbackOutcomes : ManagedCall(c, d, sc, co, ro)
    \/ \E sc \in {"s1", "s2"}, e \in LifeEngineArgs, eo \in ExecuteOutcomes :
          ExecuteQuery(sc, e, eo)
    \/ \E sc \in {None, Name("s2"), NameList(<<"s1", "s2">>)}, eo \in ExecuteOutcomes : CreateTables(sc, eo)
    \/ Kill
    \/ Return

SpecLife == InitNew /\ [][NextLife]_vars

(***************************************************************************)
(* get_resource on an entity that has a to-one relationship "source" to an  *)
(* entity with a column "title": both lookup paths, plain and dotted        *)
(* fields.                                                                  *)
(***************************************************************************)
\* tables of the entity: its columns and "source", the related entity or None
ArticleTables ==
    { [k \in {1} |->
          [id |-> PyInt(1), name |-> PyStr(1), created |-> PyDatetime(1),
           source |-> [id |-> PyInt(7), title |-> PyStr(2)]]],
      [k \in {1, 2} |->
          IF k = 1 THEN [id |-> PyInt(1), name |-> PyStr(1), created |-> None,
                         source |-> None]
          ELSE [id |-> PyInt(2), name |-> PyStr(1), created |-> PyDatetime(1),
                source |-> [id |-> PyInt(7), title |-> PyStr(1)]]] }

InitGet ==
    /\ ctor = SQLConnector_init(ConnectorArgs)
    /\ engines = CreateEngines(ctor.uris)
    /\ disposed = {}
    /\ ddl = NoDdl
    /\ \E seed \in ArticleTables : db = [k \in DbKeys |-> seed]
    /\ entry = db
    /\ pc = "idle"
    /\ sess = NoSession
    /\ bodyFault = NoFault
    /\ ops = 0
    /\ op = NoOp
    /\ prev = NoOp
    /\ last = NoLast
    /\ threads = [t \in Threads |-> NoThread]
    /\ live = NoLive
    /\ nsess = 0
    /\ ser = NoSer

GetCalls ==
    {Get(PyInt(k), pkf, fields, FALSE) :
        k \in {1, 2, 3}, pkf \in {"", "id"},
        fields \in {<<>>, <<"name">>, <<"created">>, <<"name", "created">>,
                    <<"created", "id", "name">>, <<"bogus">>,
                    <<"source.title">>, <<"name", "source.title">>}}

NextGet ==
    \/ ScopeEnter(Absent, Absent)
    \/ \E c \in GetCalls : BodyCall(c)
    \/ BodyEnd
    \/ \E co \in CommitOutcomes, ro \in RollbackOutcomes : ScopeExit(co, ro)
    \/ \E c \in GetCalls, co \in CommitOutcomes, ro \in RollbackOutcomes :
          ManagedCall(c, Absent, Absent, co, ro)
    \/ Return

SpecGet == InitGet /\ [][NextGet]_vars

(***************************************************************************)
(* to_dict called on an object of a graph drawn from the graphs over the    *)
(* five objects: cycles (a child's parent is the parent that lists it),     *)
(* self-reference (p1.next is p1) and shared targets included.              *)
(***************************************************************************)
InitDict ==
    /\ ctor = Unbuilt
    /\ engines = NoEngines
    /\ disposed = {}
    /\ ddl = NoDdl
    /\ db = [k \in DbKeys |-> EmptyTable]
    /\ entry = db
    /\ pc = "new"
    /\ sess = NoSession
    /\ bodyFault = NoFault
    /\ ops = 0
    /\ op = NoOp
    /\ prev = NoOp
    /\ last = NoLast
    /\ threads = [t \in Threads |-> NoThread]
    /\ live = NoLive
    /\ nsess = 0
    /\ \E pc1 \in {<<>>, <<"c1">>, <<"c1", "c2">>}, pc2 \in {<<>>, <<"c2">>},
          pn1 \in {"none", "p1", "p2"}, pn2 \in {"none", "p1"},
          cp1 \in {"none", "p1"}, cp2 \in {"none", "p1", "p2"},
          ct1 \in {<<>>, <<"t1">>}, ct2 \in {<<>>, <<"t1">>} :
          LET one(o) == IF o = "none" THEN [t |-> "none", v |-> ""]
                        ELSE [t |-> "obj", v |-> o]
              many(l) == [t |-> "list", v |-> l]
          IN  ser = [state |-> "graph",
                     links |-> [o \in {"p1", "p2", "c1", "c2", "t1"} |->
                        CASE o = "p1" -> [children |-> many(pc1), next |-> one(pn1)]
                          [] o = "p2" -> [children |-> many(pc2), next |-> one(pn2)]
                          [] o = "c1" -> [parent |-> one(cp1), tags |-> many(ct1)]
                          [] o = "c2" -> [parent |-> one(cp2), tags |-> many(ct2)]
                          [] OTHER -> [none |-> many(<<>>)]]]

\* to_dict(obj, recursive=recursive) as a top-level call: found is None, so
\* a new set
ToDict(obj, recursive) ==
    /\ ser.state = "graph"
    /\ \E r \in {IF recursive
                  THEN to_dict_recursive(ser.links, obj,
                                         [found |-> {}, log |-> <<>>, deep |-> FALSE], 1)
                  ELSE [out |-> to_dict(ColumnsOf(obj)),
                        st |-> [found |-> {}, log |-> <<>>, deep |-> FALSE]]} :
           ser' = [state |-> "done", links |-> ser.links, obj |-> obj,
                   recursive |-> recursive, out |-> r.out, found |-> r.st.found,
                   log |-> r.st.log, deep |-> r.st.deep]
    /\ UNCHANGED <<ctor, disposed, ddl, engines, db, entry, pc, sess, bodyFault, ops, op,
                   prev, last>>
    /\ UNCHANGED concurrent

NextDict == \E obj \in {"p1", "p2", "c1", "c2", "t1"}, recursive \in BOOLEAN : ToDict(obj, recursive)

SpecDict == InitDict /\ [][NextDict]_vars

(***************************************************************************)
(* update_resource with the caller's session, in a body that catches the    *)
(* helper's ValueError and goes on:                                         *)
(*     with connector.session_scope() as session:                           *)
(*         try: connector.update_resource(..., session=session)             *)
(*         except ValueError: pass                                          *)
(***************************************************************************)
\* the except clause of the caller's body takes the helper's ValueError
BodyCatch ==
    /\ pc = "exit"
    /\ op.fault = "ValueError"
    /\ bodyFault = Fault(op.fault, "body")
    /\ pc' = "body"
    /\ bodyFault' = NoFault
    /\ UNCHANGED <<ser, ctor, disposed, ddl, engines, db, entry, sess, ops, op, prev, last>>
    /\ UNCHANGED concurrent

UpdateCalls ==
    {Update(PyInt(k), upd, raise) :
        k \in {1, 3}, upd \in {<<<<"name", PyStr(2)>>>>, BadUpdate, BadUpdateFirst},
        raise \in BOOLEAN}

NextUpdate ==
    \/ ScopeEnter(Absent, Absent)
    \/ \E c \in UpdateCalls : BodyCall(c)
    \/ BodyCatch
    \/ BodyEnd
    \/ \E co \in CommitOutcomes, ro \in RollbackOutcomes : ScopeExit(co, ro)
    \/ \E c \in UpdateCalls, co \in CommitOutcomes, ro \in RollbackOutcomes :
          ManagedCall(c, Absent, Absent, co, ro)
    \/ Return

SpecUpdate == Init /\ [][NextUpdate]_vars

(***************************************************************************)
(* Two threads calling decorated helpers on one connector.                  *)
(***************************************************************************)
ConcurrentCalls ==
    { Create([name |-> PyStr(2)], TRUE),
      Delete(PyInt(1)),
      Update(PyInt(1), <<<<"name", PyStr(2)>>>>, FALSE),
      Get(PyStr(1), "name", <<"name">>, FALSE) }

NextConcurrent ==
    \/ \E t \in Threads, c \in ConcurrentCalls, d \in {Absent, "db1", "db2", "nope"} :
          ManagerEnter(t, c, d, Absent)
    \/ \E t \in Threads : ManagerInvoke(t)
    \/ \E t \in Threads, co \in CommitOutcomes, ro \in RollbackOutcomes :
          ManagerExit(t, co, ro)
    \/ \E t \in Threads : ManagerAgain(t)
    \/ \E t \in Threads : ManagerReturn(t)

SpecConcurrent == Init /\ [][NextConcurrent]_vars

(***************************************************************************)
(* Properties of the CRUD helpers                                           *)
(***************************************************************************)
\* get_resource by primary key with no projection has just run, on the row
\* that the create_resource before it in the same session added
ReadBackAfterCreate ==
    /\ op.n = 1 /\ op.call.op = "get"
    /\ op.call.fields = <<>> /\ ~op.call.flag
    /\ prev.n = 1 /\ prev.call.op = "create" /\ prev.fault = "none"
    /\ \E k \in DOMAIN prev.after \ DOMAIN prev.before : op.call.pk = PyInt(k)

\* C6 as stated: the mapping read back equals the input mapping exactly.
C6_AsStated ==
    ReadBackAfterCreate => (op.fault = "none" /\ op.ret = RetDict(prev.call.F))

\* the value read back for an input value: a datetime comes back as its
\* ISO text, every other value as it was given
ReadBackValue(val) == IF val.t = "datetime" THEN [t |-> "isostr", v |-> val.v] ELSE val

\* C6 amended: the mapping read back has one key per column of the entity;
\* "id" holds the new primary key, a column given in the input holds the
\* input value (a datetime as its ISO text), a column not given holds None.
C6_RoundTrip ==
    ReadBackAfterCreate =>
        /\ op.fault = "none"
        /\ op.ret.t = "dict"
        /\ DOMAIN op.ret.v = {"id", "name", "created"}
        /\ op.ret.v["id"] = op.call.pk
        /\ \A c \in {"name", "created"} :
               op.ret.v[c] = IF c \in DOMAIN prev.call.F
                             THEN ReadBackValue(prev.call.F[c])
                             ELSE [t |-> "none", v |-> 0]

\* C6 witness: a row created with a name and a datetime has been read back
C6_Witness ==
    /\ ReadBackAfterCreate
    /\ DOMAIN prev.call.F = {"name", "created"}
    /\ prev.call.F["created"].t = "datetime"
    /\ op.fault = "none"

\* C7: delete_resource returns True and raises nothing; on a key with no row
\* it leaves the table as it was; on an existing row it removes that row and
\* leaves every other row as it was; a second delete of the same key right
\* after the first leaves the table as the first left it; and when the scope
\* then commits, the committed table is the table the delete left.
C7_DeleteIdempotent ==
    (op.n >= 1 /\ op.call.op = "delete") =>
        /\ op.fault = "none"
        /\ op.ret = [t |-> "bool", v |-> TRUE]
        /\ op.call.pk.v \notin DOMAIN op.before => op.after = op.before
        /\ DOMAIN op.after = DOMAIN op.before \ {op.call.pk.v}
        /\ \A k \in DOMAIN op.after : op.after[k] = op.before[k]
        /\ (prev.n = 1 /\ prev.call = op.call) => op.after = prev.after
        /\ (pc = "returned" /\ last.raised = NoFault /\ bodyFault = NoFault) =>
               db[<<"db1", "">>] = op.after

\* C7 witness: an existing row was deleted twice in a row and the scope has
\* committed
C7_Witness ==
    /\ pc = "returned"
    /\ op.call.op = "delete" /\ prev.call = op.call /\ prev.n = 1
    /\ op.call.pk.v \in DOMAIN prev.before
    /\ last.raised = NoFault /\ bodyFault = NoFault
    /\ db # entry

\* get_resource has just looked a row up by its primary key, on the
\* full-entity path or on the narrow projection path
GetByPrimaryKey ==
    /\ op.n >= 1 /\ op.call.op = "get"
    /\ op.call.pk.t = "int" /\ op.call.pkf \in {"", "id"}
NarrowPath == op.call.pkf # "" /\ op.call.fields # <<>>

\* C8: on a key with no row, get_resource raises ValueError when
\* just_check_existence is false; when it is true it raises nothing and
\* returns whether the row exists; in both cases the table and the committed
\* content are unchanged.
C8_GetMissing ==
    GetByPrimaryKey =>
        /\ (~op.call.flag /\ op.call.pk.v \notin DOMAIN op.before) =>
               op.fault = "ValueError"
        /\ op.call.flag =>
               /\ op.fault = "none"
               /\ op.ret = [t |-> "bool", v |-> op.call.pk.v \in DOMAIN op.before]
        /\ op.after = op.before
        /\ (last.kind = "managed" \/ pc \in {"body", "exit"}) => db = entry

\* C8 witness: the narrow projection path found no row and raised ValueError
C8_Witness ==
    /\ GetByPrimaryKey /\ NarrowPath
    /\ ~op.call.flag
    /\ op.before # EmptyTable
    /\ op.call.pk.v \notin DOMAIN op.before
    /\ op.fault = "ValueError"

\* update_resource has just run on an existing row with a mapping that names
\* a field the entity does not have
UpdateWithUnknownField ==
    /\ op.n >= 1 /\ op.call.op = "update"
    /\ op.call.pk.t = "int" /\ op.call.pk.v \in DOMAIN op.before
    /\ \E i \in 1..Len(op.call.upd) : op.call.upd[i][1] \notin {"id", "name", "created"}

\* the value the mapping gives a field: that of its last item for the field
Given(upd, f) ==
    LET at == {i \in 1..Len(upd) : upd[i][1] = f}
    IN  upd[CHOOSE i \in at : \A j \in at : j <= i][2]

\* C11: update_resource on an existing row with a mapping that has an unknown
\* field: with raise_if_bad_field false it returns True, the row has the
\* given value in every known field of the mapping, every other column and
\* every other row is as before and the row has gained no attribute; with
\* raise_if_bad_field true it raises ValueError and returns nothing.
C11_UnknownField ==
    UpdateWithUnknownField =>
        LET k == op.call.pk.v
            named == {op.call.upd[i][1] : i \in 1..Len(op.call.upd)}
        IN  IF op.call.flag
            THEN op.fault = "ValueError" /\ op.ret = NoRet
            ELSE /\ op.fault = "none"
                 /\ op.ret = [t |-> "bool", v |-> TRUE]
                 /\ DOMAIN op.after = DOMAIN op.before
                 /\ DOMAIN op.after[k] = {"id", "name", "created"}
                 /\ \A c \in {"id", "name", "created"} :
                        op.after[k][c] = IF c \in named THEN Given(op.call.upd, c)
                                         ELSE op.before[k][c]
                 /\ \A j \in DOMAIN op.after \ {k} : op.after[j] = op.before[j]

\* C11 witness: the unknown field came first, raise_if_bad_field was false
\* and the known field after it was written
C11_Witness ==
    /\ UpdateWithUnknownField
    /\ ~op.call.flag
    /\ op.call.upd[1][1] = "bogus"
    /\ op.fault = "none"
    /\ op.after # op.before

(***************************************************************************)
(* Properties of list_resources                                             *)
(***************************************************************************)
ListReturned == pc = "returned" /\ op.n >= 1 /\ op.call.op = "list"

\* C9: list_resources raises ValueError and returns nothing for every limit
\* above 1000, whatever the table, the filter and the offset, and that
\* ValueError is what the caller receives unless the rollback raised; for a
\* limit of 0 to 1000 neither the helper nor the call raises ValueError.
C9_LimitBound ==
    ListReturned =>
        /\ op.call.limit > 1000 =>
               /\ op.fault = "ValueError" /\ op.ret = NoRet /\ last.ret = NoRet
               /\ last.fault # NoFault
               /\ last.rollback = NoFault => last.fault = Fault("ValueError", "body")
        /\ op.call.limit <= 1000 =>
               op.fault # "ValueError" /\ last.fault.kind # "ValueError"

\* C9 witness: limit 1001 on a table with rows
C9_Witness ==
    /\ ListReturned
    /\ op.call.limit = 1001
    /\ op.before # EmptyTable
    /\ last.fault = Fault("ValueError", "body")

\* the rows that match a filter, in primary-key order
RECURSIVE MatchFrom(_, _, _)
MatchFrom(view, filt, k) ==
    IF \A j \in DOMAIN view : j < k THEN <<>>
    ELSE IF k \in DOMAIN view /\ (filt = "" \/ view[k]["name"] = [t |-> "str", v |-> 1])
         THEN <<view[k]>> \o MatchFrom(view, filt, k + 1)
         ELSE MatchFrom(view, filt, k + 1)

\* a row as list_resources hands it out: the projected attributes as they
\* are, or every column with a datetime as its ISO text
Serialized(e, fields) ==
    IF fields # <<>> THEN [f \in {fields[i] : i \in 1..Len(fields)} |-> e[f]]
    ELSE [c \in {"id", "name", "created"} |-> ReadBackValue(e[c])]

\* C10: for a limit of 0 to 1000, "total" is the number of matching rows
\* before pagination and "resources" are the matching rows at positions
\* offset .. offset+limit-1 (all from offset on when limit is 0).
C10_TotalAndPage ==
    (ListReturned /\ op.call.limit <= 1000) =>
        LET m == MatchFrom(op.before, op.call.filt, 1)
            rest == IF Len(m) > op.call.offset THEN Len(m) - op.call.offset ELSE 0
            size == IF op.call.limit = 0 \/ rest < op.call.limit THEN rest
                    ELSE op.call.limit
            page == op.ret.v.resources
        IN  /\ op.fault = "none"
            /\ op.ret.t = "list"
            /\ op.ret.v.total = Len(m)
            /\ Len(page) = size
            /\ \A i \in 1..size :
                   page[i] = Serialized(m[op.call.offset + i], op.call.fields)
            /\ op.call.limit > 0 => Len(page) <= op.call.limit
            /\ op.ret.v.total >= Len(page)

\* C10 witness: three matching rows, limit 1 and offset 1: one row, total 3
C10_Witness ==
    /\ ListReturned
    /\ op.call.limit = 1 /\ op.call.offset = 1 /\ op.call.filt = ""
    /\ op.ret.t = "list"
    /\ op.ret.v.total = 3
    /\ Len(op.ret.v.resources) = 1

(***************************************************************************)
(* Properties of get_uris and of the constructor                            *)
(***************************************************************************)
\* a URI mapping was asked for, by the constructor or from get_uris directly
Asked == ctor.kind \in {"init", "get_uris"}
IsSqlite(a) == a.db_type = Text(<<"sqlite">>)
Present(x) == x.t = "str" /\ x.v # <<>>

\* the name is a non-empty str, or a non-empty list, tuple or set of names
NamesGiven(a) ==
    \/ a.db_name.t = "str" /\ a.db_name.v # ""
    \/ a.db_name.t \in {"list", "tuple"} /\ a.db_name.v # <<>>
    \/ a.db_name.t = "set" /\ a.db_name.v # {}

\* valid construction parameters: an allowed kind, a host or path, names,
\* and for a server kind a user and a password
ValidParameters(a) ==
    /\ a.db_type \in AllowedTypes
    /\ Present(a.db_host_or_path)
    /\ NamesGiven(a)
    /\ IsSqlite(a) \/ (Present(a.db_user) /\ Present(a.db_passwd))

\* C12 as stated: for all valid construction parameters a URI mapping is
\* built and it has a "default" key.
C12_AsStated ==
    (Asked /\ ValidParameters(ctor.args)) =>
        (ctor.fault = "none" /\ "default" \in DOMAIN ctor.uris)

\* the names of a list or tuple, and the first of them
NamesOf(a) == {a.db_name.v[i] : i \in 1..Len(a.db_name.v)}
\* the URI of database n under the arguments a
UriOf(a, n) ==
    UriPrefix(a.db_type, a.db_host_or_path, a.db_port, a.db_user, a.db_passwd)
        \o <<"/", n>>
Ordered(a) == a.db_name.t \in {"list", "tuple"}

\* C13 as stated: "default" has the URI of the sole name, or of the first
\* name of a list, for every list.
C13_AsStated ==
    (Asked /\ ctor.fault = "none" /\ ctor.args.db_name.t \in {"str", "list", "tuple"}) =>
        ctor.uris["default"] = UriOf(ctor.args, IF Ordered(ctor.args)
                                                 THEN ctor.args.db_name.v[1]
                                                 ELSE ctor.args.db_name.v)

\* C13 amended: "default" has the URI of the sole name; for a list or tuple
\* in which the name "default" does not occur it has the URI of the first
\* name; for a list or tuple in which "default" occurs, at any position, it
\* has the URI of the database named "default" and is no alias of the first.
C13_DefaultAlias ==
    (Asked /\ ctor.fault = "none" /\ ctor.args.db_name.t \in {"str", "list", "tuple"}) =>
        LET a == ctor.args
        IN  IF ~Ordered(a)
            THEN ctor.uris = [n \in {"default"} |-> UriOf(a, a.db_name.v)]
            ELSE /\ DOMAIN ctor.uris = NamesOf(a) \cup {"default"}
                 /\ \A n \in NamesOf(a) : ctor.uris[n] = UriOf(a, n)
                 /\ "default" \notin NamesOf(a) =>
                        ctor.uris["default"] = ctor.uris[a.db_name.v[1]]
                 /\ "default" \in NamesOf(a) =>
                        ctor.uris["default"] = UriOf(a, "default")

\* C13 witness: a list whose second name is "default"
C13_Witness ==
    /\ Asked /\ ctor.fault = "none"
    /\ ctor.args.db_name = NameList(<<"a", "default">>)
    /\ ctor.uris["default"] # ctor.uris["a"]

\* the parameter combinations for which construction is to fail
Misconfigured(a) ==
    \/ a.db_type \notin AllowedTypes
    \/ FalsyName(a.db_name)
    \/ ~Present(a.db_host_or_path)
    \/ ~IsSqlite(a) /\ ~(Present(a.db_user) /\ Present(a.db_passwd))
ConfigurationErrors == {"ValueError", "AttributeError"}

\* C14 as stated: construction fails with a configuration error and creates
\* no engine for the listed combinations, and succeeds for every other one
\* (names being a str, a list, a tuple or a set).
C14_AsStated ==
    (ctor.kind = "init" /\ ctor.args.db_name.t \in {"none", "str", "list", "tuple", "set"}) =>
        IF Misconfigured(ctor.args)
        THEN ctor.fault \in ConfigurationErrors /\ engines = NoEngines
        ELSE ctor.fault = "none" /\ DOMAIN engines = DOMAIN ctor.uris

\* a server URI was built
ServerUriBuilt == Asked /\ ctor.fault = "none" /\ ~IsSqlite(ctor.args)
Contains(uri, item) == \E i \in 1..Len(uri) : uri[i] = item

\* C15 as stated: a server URI has a user part before "@" only if both user
\* and password are given.
C15_AsStated ==
    ServerUriBuilt =>
        \A n \in DOMAIN ctor.uris :
            Contains(ctor.uris[n], "@") =>
                (Present(ctor.args.db_user) /\ Present(ctor.args.db_passwd))

\* C15 amended: a server URI is kind://[user[:password]@]host[:port]/name:
\* the user part is there exactly when a user is given, with the password in
\* it exactly when a password is given as well; a password without a user
\* is not embedded.
C15_UserPart ==
    ServerUriBuilt =>
        LET a == ctor.args
            user_part == IF ~Present(a.db_user) THEN <<>>
                         ELSE IF Present(a.db_passwd)
                              THEN a.db_user.v \o <<":">> \o a.db_passwd.v \o <<"@">>
                              ELSE a.db_user.v \o <<"@">>
            port_part == IF a.db_port.t = "int" /\ a.db_port.v # 0
                         THEN <<":">> \o StrOfInt(a.db_port.v) ELSE <<>>
        IN  \A n \in DOMAIN ctor.uris :
                /\ Len(ctor.uris[n]) >= 2
                /\ SubSeq(ctor.uris[n], 1, Len(ctor.uris[n]) - 2) =
                       a.db_type.v \o <<"://">> \o user_part \o a.db_host_or_path.v
                           \o port_part
                /\ Contains(ctor.uris[n], "@") = Present(a.db_user)

\* C15 witness: get_uris built a server URI from a user and no password
C15_Witness ==
    /\ ServerUriBuilt
    /\ ctor.kind = "get_uris"
    /\ Present(ctor.args.db_user) /\ ~Present(ctor.args.db_passwd)
    /\ Contains(ctor.uris["default"], "@")

\* a path with every trailing "/" removed
RECURSIVE StripAllTrailing(_)
StripAllTrailing(path) ==
    IF path # <<>> /\ path[Len(path)] = "/"
    THEN StripAllTrailing(SubSeq(path, 1, Len(path) - 1)) ELSE path

\* C16 as stated: every sqlite URI is "sqlite:///" + the path with all its
\* trailing "/" removed + "/" + name, whatever user and password are passed.
C16_AsStated ==
    (Asked /\ ctor.fault = "none" /\ IsSqlite(ctor.args)) =>
        \A n \in DOMAIN ctor.uris :
            \E name \in {"a", "b", "default"} :
                ctor.uris[n] = <<"sqlite:///">>
                                  \o StripAllTrailing(ctor.args.db_host_or_path.v)
                                  \o <<"/", name>>

(***************************************************************************)
(* Properties of the engine mapping                                         *)
(***************************************************************************)
HasConnector == pc \notin {"new", "failed", "built"}

\* C17: once the connector is constructed its engine mapping has one engine
\* per key of the URI mapping, for the database of that key's URI; no step
\* after the construction changes the mapping; and a kill step leaves every
\* engine of the mapping disposed.
C17_EngineMappingFixed ==
    /\ [](HasConnector =>
              /\ DOMAIN engines = DOMAIN ctor.uris
              /\ \A n \in DOMAIN engines : engines[n] = DatabaseOf(ctor.uris[n]))
    /\ [][pc # "new" =>
              /\ engines' = engines
              /\ last'.kind = "kill" => disposed' = DOMAIN engines]_vars

\* C17 witness: tables were created, then kill was called on a connector of
\* three engines
C17_Witness ==
    /\ HasConnector
    /\ Cardinality(DOMAIN engines) = 3
    /\ ddl.tables # {}
    /\ last.kind = "kill"
    /\ disposed = {"default", "db1", "db2"}

(***************************************************************************)
(* Properties of concurrent callers                                         *)
(***************************************************************************)
InCall(t) == threads[t].sid # 0

\* C18: two calls in progress never hold the same session object; the only
\* thread that has acted on a session object is the call that created it;
\* and the step in which one call commits, rolls back and closes its
\* session leaves the session of every other call in progress as it was.
C18_OwnSession ==
    /\ [](\A t, u \in Threads :
              /\ (t # u /\ InCall(t) /\ InCall(u)) => threads[t].sid # threads[u].sid
              /\ InCall(t) => live[threads[t].sid].users = {t})
    /\ [][\A t, u \in Threads :
              (t # u /\ threads[t].pc = "exit" /\ threads'[t].pc # "exit" /\ InCall(u))
                  => (/\ threads'[u] = threads[u]
                      /\ live'[threads[u].sid] = live[threads[u].sid])]_vars

\* C18 witness: both threads are leaving their scopes at the same time, on
\* the same database, each with writes of its own pending
C18_Witness ==
    /\ threads["t1"].pc = "exit" /\ threads["t2"].pc = "exit"
    /\ threads["t1"].sid # threads["t2"].sid
    /\ SessionKey(live[threads["t1"].sid].s) = SessionKey(live[threads["t2"].sid].s)
    /\ live[threads["t1"].sid].s.view # threads["t1"].base
    /\ live[threads["t2"].sid].s.view # threads["t2"].base

(***************************************************************************)
(* Properties of the selection of a database                                *)
(***************************************************************************)
\* the database and schema a call with these keywords is to work on
Target(db_name, schema_name) ==
    <<ExpectedDatabase(ExpectedEngine(db_name)), ExpectedSchema(schema_name)>>
\* what a later session opened through engine name n would read there
SeenThrough(n, schema_name) == NewSession(n, schema_name).view

\* C19: a decorated helper called with db_name = X and no session has read
\* the table of X's database, has left the committed content of every other
\* database and schema as it was, and what it committed through "default"
\* (or through no name) is what a later session sees through "db1", the name
\* "default" aliases, while a later session through "db2" sees what was
\* there before.
C19_OneDatabasePerCall ==
    (pc = "returned" /\ last.kind = "managed" /\ last.opened = 1) =>
        LET target == Target(last.db_name, last.schema_name)
        IN  /\ op.before = entry[target]
            /\ \A k \in DbKeys \ {target} : db[k] = entry[k]
            /\ ExpectedEngine(last.db_name) = "default" =>
                   /\ SeenThrough("db1", last.schema_name) = db[target]
                   /\ SeenThrough("default", last.schema_name) = db[target]
                   /\ SeenThrough("db2", last.schema_name)
                          = entry[<<"db2", ExpectedSchema(last.schema_name)>>]
            /\ ExpectedEngine(last.db_name) = "db2" =>
                   /\ SeenThrough("db2", last.schema_name) = db[target]
                   /\ SeenThrough("default", last.schema_name)
                          = entry[<<"db1", ExpectedSchema(last.schema_name)>>]

\* C19 witness: create_resource without db_name has committed a row; it is
\* in db1 and not in db2
C19_Witness ==
    /\ pc = "returned" /\ last.kind = "managed"
    /\ last.db_name = Absent /\ last.schema_name = Absent
    /\ op.call.op = "create"
    /\ db[<<"db1", "">>] # entry[<<"db1", "">>]
    /\ SeenThrough("db1", Absent) = db[<<"db1", "">>]
    /\ SeenThrough("db2", Absent) = entry[<<"db2", "">>]
    /\ SeenThrough("db1", Absent) # SeenThrough("db2", Absent)

(***************************************************************************)
(* Properties of the number of invocations                                  *)
(***************************************************************************)
\* C20 as stated: whenever a decorated helper has been called, with the
\* caller's session or without one, and whatever it raised, its body was
\* invoked exactly once, and not on a session that had been closed.
C20_AsStated ==
    /\ (pc \in {"body", "exit"} /\ op.call.op # "none") => op.n = 1
    /\ (pc = "returned" /\ last.kind = "managed" /\ last.opened = 1) =>
           (op.n = 1 /\ sess.state # "reopened")

(***************************************************************************)
(* Properties of the success indicator of the writing helpers               *)
(***************************************************************************)
WritingCall == op.call.op \in {"create", "update", "delete"}
SuccessIndicator(ret) == ret = RetBool(TRUE) \/ ret.t = "id"
ReturnedSuccess ==
    /\ pc = "returned" /\ last.kind = "managed" /\ last.opened = 1
    /\ WritingCall /\ last.fault = NoFault /\ SuccessIndicator(last.ret)

\* C21 as stated: whenever create_resource, update_resource or
\* delete_resource, called without a session, returns a success indicator
\* (True or the new id), its transaction was not rolled back and a later
\* call sees the table as the helper left it.
C21_AsStated ==
    ReturnedSuccess =>
        /\ "rollback" \notin {sess.log[i] : i \in 1..Len(sess.log)}
        /\ SeenThrough(ExpectedEngine(last.db_name), last.schema_name) = op.after

(***************************************************************************)
(* Properties of the connections a scope checks out                         *)
(***************************************************************************)
\* the scope of the last call has exited
ScopeExited == pc = "returned" /\ last.opened = 1 /\ sess.state = "closed"

\* C22 as stated: once a scope has exited, with or without a schema name and
\* whether its body succeeded or failed, it holds no connection of the
\* engine's pool, the connection opened for the schema override included.
C22_AsStated == ScopeExited => ~sess.conn

(***************************************************************************)
(* Properties of what a helper hands back                                   *)
(***************************************************************************)
\* the value is evaluated on the session it was built on: an unevaluated
\* query, as opposed to a dict, a list, a bool or an id
NeedsSession(ret) == ret.t = "query"

\* C23 as stated: a decorated helper called without a session never hands
\* back a value that still needs the injected session, which the scope has
\* committed and closed by then.
C23_AsStated ==
    (pc = "returned" /\ last.kind = "managed" /\ last.fault = NoFault
        /\ NeedsSession(last.ret)) => sess.state = "open"

(***************************************************************************)
(* Properties of a failed update                                            *)
(***************************************************************************)
\* the record is that of an update_resource call that raised ValueError
FailedUpdate(o) == o.call.op = "update" /\ o.fault = "ValueError"

\* C24 as stated: when update_resource fails, with not-found or with an
\* unknown field under raise_if_bad_field, no field of the mapping has been
\* applied: the session holds the table as it was before the call, and a
\* scope in which every call failed commits nothing, with the injected
\* session and with the caller's.
C24_AsStated ==
    /\ (pc \in {"body", "exit"} /\ FailedUpdate(op)) => op.after = op.before
    /\ (pc = "returned" /\ last.opened = 1 /\ FailedUpdate(op)
            /\ (prev = NoOp \/ FailedUpdate(prev))) => db = entry

(***************************************************************************)
(* Properties of the two lookup paths of get_resource                       *)
(***************************************************************************)
\* get_resource has just run, not as an existence check, on a key that has a
\* row
GetExisting ==
    /\ op.n >= 1 /\ op.call.op = "get" /\ ~op.call.flag
    /\ op.call.pk.t = "int" /\ op.call.pk.v \in DOMAIN op.before

Requested == {op.call.fields[i] : i \in 1..Len(op.call.fields)}

\* the value the row has for a field; for the dotted field, the title of the
\* row's source
ValueAt(row, f) == IF f = "source.title" THEN row["source"]["title"] ELSE row[f]

\* the row has what each requested field names
Answerable(row) ==
    \A f \in Requested :
        \/ f \in {"id", "name", "created"}
        \/ f = "source.title" /\ "title" \in DOMAIN row["source"]

\* what the same lookup returns or raises, and the table it leaves, with
\* pk_fieldname omitted ("") or naming the key
OtherPath(pk_fieldname) ==
    LET r == get_resource(op.before, op.call.pk, pk_fieldname, op.call.fields, FALSE)
    IN  <<r.ret, r.fault, r.view>>

\* C25: for an existing row and every non-empty list of fields the row can
\* answer, get_resource returns the mapping whose keys are exactly the
\* requested fields, dotted paths as given, and whose values are the row's
\* values and, for a dotted path, that property of the related entity; the
\* outcome is the same with pk_fieldname omitted and with pk_fieldname naming
\* the primary key.  With an empty list it returns to_dict of the row on
\* either path.
C25_PathsAgree ==
    GetExisting =>
        LET row == op.before[op.call.pk.v]
        IN  /\ (op.call.fields # <<>> /\ Answerable(row)) =>
                   /\ op.fault = "none" /\ op.ret.t = "dict"
                   /\ DOMAIN op.ret.v = Requested
                   /\ \A f \in Requested : op.ret.v[f] = ValueAt(row, f)
            /\ op.call.fields = <<>> =>
                   /\ op.fault = "none"
                   /\ op.ret = [t |-> "dict", v |-> to_dict(row)]
            /\ OtherPath("") = OtherPath("id")

\* C25 witness: the narrow path returned two columns of an existing row, one
\* of them a datetime; or the full path returned a dotted field
C25_Witness ==
    /\ GetExisting /\ op.fault = "none"
    /\ \/ /\ op.call.pkf = "id" /\ op.call.fields = <<"name", "created">>
          /\ op.ret.v["created"].t = "datetime"
       \/ /\ op.call.pkf = "id" /\ op.call.fields = <<"name", "source.title">>
          /\ op.ret.v["source.title"] = PyStr(2)

(***************************************************************************)
(* Properties of the recursive serialization                                *)
(***************************************************************************)
\* a top-level call of to_dict with recursive=True has returned
Recursed == ser.state = "done" /\ ser.recursive

\* the relationships of all the mapped classes
AllRelations ==
    {Mapper(o)[i].relation : o \in {"p1", "c1", "t1"}, i \in 1..2} \ {<<>>}

\* C26: to_dict with recursive=True returns on every graph, cyclic and
\* self-referencing ones included: the nesting of its calls never exceeds one
\* more than the number of relationships, and within one top-level call no
\* relationship is expanded twice.
C26_Terminates ==
    Recursed =>
        /\ ~ser.deep
        /\ \A i, j \in 1..Len(ser.log) : ser.log[i] = ser.log[j] => i = j
        /\ Len(ser.log) <= 4
        /\ ser.found = {ser.log[i] : i \in 1..Len(ser.log)}

\* C26 witness: p1 lists c1, c1's parent is p1 and p1's next is p1 itself;
\* to_dict(p1) returned with all four relationships expanded once
C26_Witness ==
    /\ Recursed /\ ser.obj = "p1"
    /\ ser.links["p1"]["children"].v = <<"c1", "c2">>
    /\ ser.links["c1"]["parent"].v = "p1"
    /\ ser.links["p1"]["next"].v = "p1"
    /\ Len(ser.log) = 4
    /\ "parent" \in DOMAIN ser.out["children"][1]

\* the relationships of an object that lead somewhere
Related(o) == {n \in DOMAIN ser.links[o] : ser.links[o][n].t # "none"}

\* C27 as stated: the children serialized through one to-many relationship
\* of the object have the same keys whenever they have the same
\* relationships to show: what is expanded for the first is expanded for
\* every other.
C27_AsStated ==
    Recursed =>
        \A name \in {"children", "tags"} \cap DOMAIN ser.out :
            LET children == ser.links[ser.obj][name].v
            IN  \A i, j \in 1..Len(children) :
                    Related(children[i]) = Related(children[j]) =>
                        DOMAIN ser.out[name][i] = DOMAIN ser.out[name][j]

(***************************************************************************)
(* Properties of create_tables                                              *)
(***************************************************************************)
\* the <<database, schema>> pairs create_tables(schemas) is to cover: those
\* of the schemas given, else of the schemas stored at construction, on
\* every engine; with no schemas at all, every engine's database without a
\* schema override
Covered(schemas) ==
    LET wanted == IF FalsyName(schemas) THEN ctor.schemas
                  ELSE IF schemas.t = "str" THEN NameList(<<schemas.v>>)
                  ELSE schemas
    IN  IF wanted.t = "none" THEN {<<engines[n], "">> : n \in DOMAIN engines}
        ELSE {<<engines[n], wanted.v[i]>> : n \in DOMAIN engines, i \in 1..Len(wanted.v)}

\* C28 as stated: every create_tables(schemas=S) that meets no database
\* fault returns normally, having created the tables in exactly the schemas
\* of S on every engine (once per engine without a schema override when
\* there are no schemas at all), whatever schema list the connector stored
\* at construction.
C28_AsStated ==
    [][\A S \in {None, Name("s2"), NameList(<<"s1", "s2">>)} :
          CreateTables(S, "ok") =>
              /\ last'.fault = NoFault
              /\ ddl'.tables = ddl.tables \cup Covered(S)]_vars

====
